---- MODULE Spec2Model ----
(***************************************************************************)
(* Bank statement parsers: the four statement grammars (BCA PDF, CIMB PDF, *)
(* Mandiri PDF, Mandiri XLSX) as state machines over extracted page lines  *)
(* and grid rows, the output configuration and rendering of config.py and  *)
(* base.py, and the run over the found files of process_statements.py.     *)
(*                                                                         *)
(* Text is modelled character by character: a string is a sequence of      *)
(* one-character strings, a page is a sequence of lines, and every regular *)
(* expression of the source is a sequence of items matched greedily from   *)
(* left to right (none of the source's expressions needs backtracking on   *)
(* the lines it is applied to, except where noted).  Offsets into strings  *)
(* are 0-based and spans are half-open, as in Python.  Amounts are exact   *)
(* integers in hundredths (the source uses floats).  The fields            *)
(* reference_no, account_owner and account_number are not modelled:        *)
(* nothing below reads them.  Each transaction record carries, besides the *)
(* fields of the source, where it came from: src_balance (the balance read *)
(* from the source, before reconciliation), src_page, src_line (the index  *)
(* of its start line or row) and src_next (the index the scan resumed at). *)
(***************************************************************************)
EXTENDS Integers, Sequences, FiniteSets, TLC

VARIABLES grammar,          \* which parser runs: "A" BCA, "B" CIMB, "C" Mandiri PDF, "X" Mandiri XLSX
          pages,            \* pdf.pages: a sequence of pages, each the sequence of lines of its text
          grid,             \* the DataFrame read from the workbook: a sequence of rows of cells
          cols,             \* XLSX: the header row index and the column index of each role
          pc,               \* position of the call under way; of parse(): "header", "scan", "done", "raised"
          pg,               \* index of the page being scanned (1-based)
          i,                \* the line index i of the scanning loop (0-based) / the grid row index
          year,             \* BCA: statement year
          opening_balance,  \* BCA: opening balance found in the header
          running_balance,  \* BCA: the running-balance accumulator
          transactions,     \* the list of transactions built so far
          args,             \* the arguments of the call under way (constructor, export, main)
          output_format,    \* the OutputFormat constructed, NoFormat before and without one
          result,           \* what the last call returned
          banks,            \* main(): the banks still to be searched
          files,            \* main(): the found files of the current bank still to be processed
          total_processed,  \* main(): the counter reported at the end of the run
          written           \* the files an output has been written for, in order

\* the state of the callers of the parsers
run == <<args, output_format, result, banks, files, total_processed, written>>

vars == <<grammar, pages, grid, cols, pc, pg, i, year, opening_balance, running_balance,
          transactions, run>>

-----------------------------------------------------------------------------
(* Characters and strings                                                  *)

Digit == {"0", "1", "2", "3", "4", "5", "6", "7", "8", "9"}

LowerLetters == <<"a","b","c","d","e","f","g","h","i","j","k","l","m",
                  "n","o","p","q","r","s","t","u","v","w","x","y","z">>

UpperLetters == <<"A","B","C","D","E","F","G","H","I","J","K","L","M",
                  "N","O","P","Q","R","S","T","U","V","W","X","Y","Z">>

LowerSet == {LowerLetters[k] : k \in 1..26}

UpperSet == {UpperLetters[k] : k \in 1..26}

Letter == LowerSet \cup UpperSet

\* \s of the regular expressions, and the characters str.strip() removes
Space == {" ", "\n", "\t"}

\* \w of the regular expressions
WordChar == Letter \cup Digit \cup {"_"}

DigitVal(c) ==
    CASE c = "0" -> 0 [] c = "1" -> 1 [] c = "2" -> 2 [] c = "3" -> 3 [] c = "4" -> 4
      [] c = "5" -> 5 [] c = "6" -> 6 [] c = "7" -> 7 [] c = "8" -> 8 [] c = "9" -> 9

UpperOf == [c \in LowerSet |-> UpperLetters[CHOOSE k \in 1..26 : LowerLetters[k] = c]]

LowerOf == [c \in UpperSet |-> LowerLetters[CHOOSE k \in 1..26 : UpperLetters[k] = c]]

UpperChar(c) == IF c \in LowerSet THEN UpperOf[c] ELSE c

LowerChar(c) == IF c \in UpperSet THEN LowerOf[c] ELSE c
\* str.upper(), str.lower()
Upper(s) == [k \in 1..Len(s) |-> UpperChar(s[k])]

Lower(s) == [k \in 1..Len(s) |-> LowerChar(s[k])]

\* str.title() of a word of letters
Title(w) == [k \in 1..Len(w) |-> IF k = 1 THEN UpperChar(w[k]) ELSE LowerChar(w[k])]

Min(a, b) == IF a < b THEN a ELSE b

Max(a, b) == IF a > b THEN a ELSE b

Abs(x) == IF x < 0 THEN 0 - x ELSE x

\* the least element of a set of integers, -1 when it is empty
Least(S) == IF S = {} THEN -1 ELSE CHOOSE x \in S : \A y \in S : x <= y

\* the greatest element of a set of integers, -1 when it is empty
Greatest(S) == IF S = {} THEN -1 ELSE CHOOSE x \in S : \A y \in S : x >= y

\* s[a:b] with 0 <= a
Slice(s, a, b) == SubSeq(s, a + 1, Min(b, Len(s)))

\* s[a:]
SliceFrom(s, a) == SubSeq(s, a + 1, Len(s))

\* s without s[a:b]
Cut(s, a, b) == SubSeq(s, 1, a) \o SubSeq(s, b + 1, Len(s))

\* the substring of a match span
Token(s, m) == SubSeq(s, m.s + 1, m.e)

\* sub occurs in s at offset k
OccursAt(sub, s, k) == k + Len(sub) <= Len(s) /\ \A j \in 1..Len(sub) : s[k + j] = sub[j]

\* s.find(sub, k): the least offset from k on at which sub occurs in s, else -1
FindFrom(sub, s, k) == Least({q \in k..(Len(s) - Len(sub)) : OccursAt(sub, s, q)})

Find(sub, s) == FindFrom(sub, s, 0)

\* sub in s
Contains(sub, s) == \E k \in 0..(Len(s) - Len(sub)) : OccursAt(sub, s, k)

\* s.startswith(pre)
StartsWith(s, pre) == OccursAt(pre, s, 0)

\* the offset after the last character of s[:p] that is not in cls, 0 when there is none
RunStart(s, p, cls) ==
    CHOOSE q \in 0..p : (q = 0 \/ s[q] \notin cls) /\ \A r \in (q + 1)..p : s[r] \in cls

\* the offset of the first character at or after p that is not in cls
RunEnd(s, p, cls) ==
    IF p >= Len(s) THEN p
    ELSE CHOOSE q \in p..Len(s) :
            (q = Len(s) \/ s[q + 1] \notin cls) /\ \A r \in (p + 1)..q : s[r] \in cls

\* s.strip()
Strip(s) == SubSeq(s, RunEnd(s, 0, Space) + 1, RunStart(s, Len(s), Space))

\* re.sub(r'\s+', ' ', s): each run of whitespace becomes one space
CollapseSpaces(s) ==
    SelectSeq([p \in 1..Len(s) |->
                  IF s[p] \notin Space THEN s[p]
                  ELSE IF p > 1 /\ s[p - 1] \in Space THEN "" ELSE " "],
              LAMBDA c : c # "")

\* sep.join(parts)
RECURSIVE Join(_, _)
Join(sep, parts) ==
    IF parts = <<>> THEN <<>>
    ELSE IF Len(parts) = 1 THEN parts[1]
    ELSE parts[1] \o sep \o Join(sep, Tail(parts))

\* int(s) of a string of digits
RECURSIVE DigitsVal(_)
DigitsVal(s) ==
    IF s = <<>> THEN 0 ELSE 10 * DigitsVal(SubSeq(s, 1, Len(s) - 1)) + DigitVal(s[Len(s)])

\* s.replace(c, '') for a one-character c
Remove(s, c) == SelectSeq(s, LAMBDA x : x # c)

\* s.replace(a, b) for one-character a and b
ReplaceChar(s, a, b) == [p \in 1..Len(s) |-> IF s[p] = a THEN b ELSE s[p]]

\* s.replace(sub, '') from offset p on
RECURSIVE RemoveAll(_, _, _)
RECURSIVE RemoveStep(_, _, _, _)
RemoveAll(s, sub, p) == RemoveStep(s, sub, p, FindFrom(sub, s, p))

RemoveStep(s, sub, p, q) ==
    IF q = -1 THEN SliceFrom(s, p) ELSE Slice(s, p, q) \o RemoveAll(s, sub, q + Len(sub))

AllDigits(s) == \A k \in 1..Len(s) : s[k] \in Digit

-----------------------------------------------------------------------------
(* Regular expressions: a sequence of items, each matched greedily         *)

\* a literal
Lit(v) == [k |-> "lit", v |-> v, c |-> {}, lo |-> 0, hi |-> 0]

\* a literal under IGNORECASE (v in upper case)
LitI(v) == [k |-> "liti", v |-> v, c |-> {}, lo |-> 0, hi |-> 0]

\* an alternation of n-character words under IGNORECASE (the words in upper case)
OneOf(words, n) == [k |-> "alt", v |-> <<>>, c |-> words, lo |-> n, hi |-> n]

\* a character class repeated lo to hi times (hi = -1: no upper limit)
Rep(cls, lo, hi) == [k |-> "cls", v |-> <<>>, c |-> cls, lo |-> lo, hi |-> hi]

\* cls+  cls*  cls?  cls{n}
Some(cls) == Rep(cls, 1, -1)

Star(cls) == Rep(cls, 0, -1)

Opt(cls) == Rep(cls, 0, 1)

Exactly(cls, n) == Rep(cls, n, n)

\* (lead cls{n})*: a group repeated, lead a literal
Groups(lead, cls, n) == [k |-> "grp", v |-> lead, c |-> cls, lo |-> n, hi |-> -1]

\* the offset after the last group that matches from offset p on
RECURSIVE GroupsEnd(_, _, _)
GroupsEnd(s, p, it) ==
    IF /\ OccursAt(it.v, s, p)
       /\ p + Len(it.v) + it.lo <= Len(s)
       /\ \A r \in (p + Len(it.v) + 1)..(p + Len(it.v) + it.lo) : s[r] \in it.c
    THEN GroupsEnd(s, p + Len(it.v) + it.lo, it)
    ELSE p

\* the end of a run that starts at p and ends at q, taken lo to hi times, or -1
RepEnd(p, q, lo, hi) ==
    IF q - p < lo THEN -1
    ELSE IF hi >= 0 /\ q - p > hi THEN p + hi
    ELSE q

\* an item tried at offset p: the end of its match, or -1
ItemEnd(s, p, it) ==
    CASE it.k = "lit"  -> IF OccursAt(it.v, s, p) THEN p + Len(it.v) ELSE -1
      [] it.k = "liti" -> IF Upper(Slice(s, p, p + Len(it.v))) = it.v
                          THEN p + Len(it.v) ELSE -1
      [] it.k = "alt"  -> IF p + it.lo <= Len(s) /\ Upper(Slice(s, p, p + it.lo)) \in it.c
                          THEN p + it.lo ELSE -1
      [] it.k = "cls"  -> RepEnd(p, RunEnd(s, p, it.c), it.lo, it.hi)
      [] it.k = "grp"  -> GroupsEnd(s, p, it)

\* the items from the k-th on tried after the offsets acc: the offsets p, e1, e2, ... where
\* the match starts and where each item's match ends, or <<>> when an item does not match
RECURSIVE MatchFrom(_, _, _, _)
RECURSIVE MatchStep(_, _, _, _, _)
MatchFrom(s, items, k, acc) ==
    IF k > Len(items) THEN acc
    ELSE MatchStep(s, items, k, acc, ItemEnd(s, acc[Len(acc)], items[k]))

MatchStep(s, items, k, acc, q) ==
    IF q = -1 THEN <<>> ELSE MatchFrom(s, items, k + 1, Append(acc, q))

\* re.match at offset p
Match(s, p, items) == MatchFrom(s, items, 1, <<p>>)

\* the last offset of a match, -1 when there is no match
EndOf(m) == IF m = <<>> THEN -1 ELSE m[Len(m)]

\* the end of the match at offset p, or -1
MatchEnd(s, p, items) == EndOf(Match(s, p, items))

\* the offset of the leftmost match from offset p on, or -1
SearchFrom(s, p, items) == Least({q \in p..(Len(s) - 1) : Match(s, q, items) # <<>>})

\* the match at offset q, <<>> when q is -1
MatchAt(s, q, items) == IF q = -1 THEN <<>> ELSE Match(s, q, items)

\* re.search: the offsets of the leftmost match, or <<>>
Search(s, items) == MatchAt(s, SearchFrom(s, 0, items), items)

\* the span [s, e) of the leftmost match from offset p on, [s |-> -1] when there is none
SpanAt(str, items, q) == [s |-> q, e |-> IF q = -1 THEN -1 ELSE MatchEnd(str, q, items)]

NextSpan(str, p, items) == SpanAt(str, items, SearchFrom(str, p, items))

\* list(re.finditer(items, s)) from offset p on: the spans of the successive matches
RECURSIVE FindAllFrom(_, _, _)
RECURSIVE FindAllStep(_, _, _)
FindAllFrom(str, p, items) == FindAllStep(str, items, NextSpan(str, p, items))

FindAllStep(str, items, m) ==
    IF m.s = -1 THEN <<>> ELSE <<m>> \o FindAllFrom(str, m.e, items)

FindAll(str, items) == FindAllFrom(str, 0, items)

\* re.sub(items, '', s) from offset p on
RECURSIVE SubAllFrom(_, _, _)
RECURSIVE SubAllStep(_, _, _, _)
SubAllFrom(str, p, items) == SubAllStep(str, p, items, NextSpan(str, p, items))

SubAllStep(str, p, items, m) ==
    IF m.s = -1 THEN SliceFrom(str, p)
    ELSE Slice(str, p, m.s) \o SubAllFrom(str, m.e, items)

-----------------------------------------------------------------------------
(* Calendar dates: datetime(year, month, day)                              *)

IsLeap(y) == (y % 4 = 0 /\ y % 100 # 0) \/ y % 400 = 0

DaysInMonth(y, m) ==
    IF m = 2 THEN (IF IsLeap(y) THEN 29 ELSE 28)
    ELSE IF m \in {4, 6, 9, 11} THEN 30 ELSE 31

\* datetime(y, m, d) raises ValueError exactly when this is false
ValidDate(y, m, d) ==
    /\ y \in 1..9999
    /\ m \in 1..12
    /\ d >= 1 /\ d <= DaysInMonth(y, m)

MkDate(y, m, d) == [y |-> y, m |-> m, d |-> d]

\* stands for "no date": the constructor raised, or the row is skipped
NoDate == MkDate(0, 0, 0)

\* the keys of month_map in title case, in calendar order (cimb-pdf.py lines 12-17); also
\* the abbreviated month names %b of strptime
MonthNames ==
    << <<"J", "a", "n">>, <<"F", "e", "b">>, <<"M", "a", "r">>, <<"A", "p", "r">>, <<"M", "a", "y">>, <<"J", "u", "n">>,
       <<"J", "u", "l">>, <<"A", "u", "g">>, <<"S", "e", "p">>, <<"O", "c", "t">>, <<"N", "o", "v">>, <<"D", "e", "c">> >>

\* month_map.get(name, 1)
MonthOf(name) ==
    IF \E k \in 1..12 : MonthNames[k] = name
    THEN CHOOSE k \in 1..12 : MonthNames[k] = name
    ELSE 1

-----------------------------------------------------------------------------
(* Numeric tokens of the comma-thousands convention (BCA, CIMB)            *)

NumChar == Digit \cup {","}

\* [\d,]+\.\d{2}
NumRe == <<Some(NumChar), Lit(<<".">>), Exactly(Digit, 2)>>

\* -?[\d,]+\.\d{2}
SignedRe == <<Opt({"-"}), Some(NumChar), Lit(<<".">>), Exactly(Digit, 2)>>

\* float(tok.replace(',', '')) of a token digits-and-commas '.' two digits, in hundredths
PlainValue(plain) ==
    100 * DigitsVal(SubSeq(plain, 1, Len(plain) - 3))
        + DigitsVal(SubSeq(plain, Len(plain) - 1, Len(plain)))

NumValue(tok) == PlainValue(Remove(tok, ","))

\* float(val_str.replace(',', '')) of a signed token, in hundredths
SignedValue(tok) ==
    IF tok[1] = "-" THEN 0 - NumValue(Tail(tok)) ELSE NumValue(tok)

-----------------------------------------------------------------------------
(* Grammar A: BCA PDF                                                      *)

sDB == <<"D", "B">>

sCR == <<"C", "R">>

sSALDO == <<"S", "A", "L", "D", "O">>

sSALDO_AWAL == <<"S", "A", "L", "D", "O", " ", "A", "W", "A", "L">>

sSALDO_AKHIR == <<"S", "A", "L", "D", "O", " ", "A", "K", "H", "I", "R">>

sBERSAMBUNG == <<"B", "E", "R", "S", "A", "M", "B", "U", "N", "G">>

\* the noise headers of the collecting loop (line 91)
BCANoise == {<<"K", "E", "T", "E", "R", "A", "N", "G", "A", "N">>, <<"T", "A", "N", "G", "G", "A", "L">>, <<"M", "U", "T", "A", "S", "I">>, <<"R", "E", "K", "E", "N", "I", "N", "G", " ", "T", "A", "H", "A", "P", "A", "N">>, <<"P", "E", "R", "I", "O", "D", "E">>}

\* page.extract_text(): the lines of the page joined by newlines
PageText(page) == Join(<<"\n">>, page)

\* SALDO\s+AWAL\s*:?\s*([\d,]+\.?\d*) with IGNORECASE (line 19); group 1 is items 7 to 9
SaldoAwalRe ==
    <<LitI(<<"S", "A", "L", "D", "O">>), Some(Space), LitI(<<"A", "W", "A", "L">>), Star(Space), Opt({":"}), Star(Space),
      Some(NumChar), Opt({"."}), Star(Digit)>>

\* PERIODE\s*:\s*\w+\s+(\d{4}) with IGNORECASE (line 29); group 1 is item 7
PeriodeRe ==
    <<LitI(<<"P", "E", "R", "I", "O", "D", "E">>), Star(Space), Lit(<<":">>), Star(Space), Some(WordChar), Some(Space),
      Exactly(Digit, 4)>>

\* ^\d{2}/\d{2}\s+ (lines 60 and 84)
BCADateRe == <<Exactly(Digit, 2), Lit(<<"/">>), Exactly(Digit, 2), Some(Space)>>

\* the hundredths of a fraction string: digits after the second are dropped
Hundredths(fp) ==
    IF Len(fp) = 0 THEN 0
    ELSE IF Len(fp) = 1 THEN 10 * DigitVal(fp[1])
    ELSE DigitsVal(SubSeq(fp, 1, 2))

\* float() of digits with a '.' at offset dot (-1: none), in hundredths; -1 when it raises
DecimalValue(str, dot) ==
    IF dot = -1 THEN (IF str = <<>> THEN -1 ELSE 100 * DigitsVal(str))
    ELSE IF Len(str) = 1 THEN -1
    ELSE 100 * DigitsVal(Slice(str, 0, dot)) + Hundredths(SliceFrom(str, dot + 1))

\* float(saldo_str) of the SALDO AWAL group with its commas removed (lines 22-25)
SaldoValue(saldo_str) == DecimalValue(saldo_str, Find(<<".">>, saldo_str))

\* lines 19-26: the opening balance of a SALDO AWAL match m of the text t, 0 when there
\* is no match or float() raises
SaldoOf(t, m) ==
    IF m = <<>> THEN 0
    ELSE Max(0, SaldoValue(Remove(Slice(t, m[7], m[10]), ",")))

\* lines 19-26: the opening balance found in the first page's text, 0 when there is none
BCAOpeningBalance(t) == SaldoOf(t, Search(t, SaldoAwalRe))

\* lines 29-31: the year of a PERIODE match m of the text t
PeriodeOf(t, m, now_year) == IF m = <<>> THEN now_year ELSE DigitsVal(Slice(t, m[7], m[8]))

\* lines 10 and 29-31: the statement year, now_year when the header names none
BCAYear(t, now_year) == PeriodeOf(t, Search(t, PeriodeRe), now_year)

\* re.match(r'^\d{2}/\d{2}\s+', line)
BCAIsDateStart(line) == Match(line, 0, BCADateRe) # <<>>

\* group(2) of ^(\d{2}/\d{2})\s+(.+) given the match m of ^\d{2}/\d{2}\s+ : what follows
\* the whitespace; when nothing follows, \s+ gives its last character back to (.+)
RestOf(line, m) ==
    IF m = <<>> THEN <<>>
    ELSE IF m[5] < Len(line) THEN SliceFrom(line, m[5])
    ELSE IF m[5] - m[4] >= 2 THEN <<line[Len(line)]>>
    ELSE <<>>

\* re.match(r'^(\d{2}/\d{2})\s+(.+)', line): group(2), or <<>> when there is no match
BCARestOfLine(line) == RestOf(line, Match(line, 0, BCADateRe))

\* line 62: the line starts a transaction
BCAIsStart(line) == BCARestOfLine(line) # <<>> /\ ~Contains(sSALDO_AWAL, line)

\* lines 86-88: the footer lines that end a transaction
BCAIsFooter(next_line) ==
    /\ Contains(sBERSAMBUNG, Upper(next_line)) \/ Contains(sSALDO, Upper(next_line))
    /\ Contains(sSALDO_AWAL, next_line) \/ Contains(sSALDO_AKHIR, next_line)

\* line 91
BCAIsNoise(next_line) == \E x \in BCANoise : Contains(x, next_line)

\* lines 79-96: the collecting loop from index j on: the index it stops at and tx_lines
RECURSIVE BCACollect(_, _, _)
RECURSIVE BCACollectLine(_, _, _, _)
BCACollect(lines, j, tx_lines) ==
    IF j >= Len(lines) THEN [i |-> j, tx_lines |-> tx_lines]
    ELSE BCACollectLine(lines, j, tx_lines, Strip(lines[j + 1]))

BCACollectLine(lines, j, tx_lines, next_line) ==
    IF BCAIsDateStart(next_line) \/ BCAIsFooter(next_line) THEN [i |-> j, tx_lines |-> tx_lines]
    ELSE IF BCAIsNoise(next_line) THEN BCACollect(lines, j + 1, tx_lines)
    ELSE BCACollect(lines, j + 1, Append(tx_lines, next_line))

\* the five characters after offset e
Post(full_content, e) == Slice(full_content, e, e + 5)

\* the last match taken as the amount
BCAAmountLast(full_content, matches) ==
    IF matches = <<>> THEN 0 ELSE NumValue(Token(full_content, matches[Len(matches)]))

\* lines 113-124: the amount is the first match, 0 when there is none
BCAAmount(full_content, matches) ==
    IF matches = <<>> THEN 0 ELSE NumValue(Token(full_content, matches[1]))

\* lines 126-134: DEBIT when DB lies in the 5 characters after the amount
BCAType(full_content, matches) ==
    IF matches # <<>> /\ Contains(sDB, Post(full_content, matches[1].e))
    THEN "DEBIT" ELSE "CREDIT"

\* lines 141-151: the last match is the balance unless DB or CR follows it
BCALastIsBalance(post_bal) == ~Contains(sDB, post_bal) /\ ~Contains(sCR, post_bal)

\* the last match as the balance whatever follows it
BCABalanceLast(full_content, matches) ==
    IF Len(matches) <= 1 THEN 0 ELSE NumValue(Token(full_content, matches[Len(matches)]))

\* lines 136-159: the balance among the matches, 0 when there is none
BCABalance(full_content, matches) ==
    IF Len(matches) <= 1 THEN 0
    ELSE IF BCALastIsBalance(Post(full_content, matches[Len(matches)].e))
         THEN NumValue(Token(full_content, matches[Len(matches)]))
    ELSE IF Len(matches) > 2
         THEN NumValue(Token(full_content, matches[Len(matches) - 1]))
    ELSE 0

\* lines 166-173: the end of what is cut out with a match that ends at e: a DB marker in
\* the five characters post after it goes too
BCACutEnd(e, post) == IF Contains(sDB, post) THEN e + Find(sDB, post) + 2 ELSE e

\* lines 163-173: the matches cut out of the description, last match first
RECURSIVE BCARemoveAmounts(_, _, _, _)
BCARemoveAmounts(full_content, clean_desc, matches, k) ==
    IF k = 0 THEN clean_desc
    ELSE BCARemoveAmounts(full_content,
                          Cut(clean_desc, matches[k].s,
                              BCACutEnd(matches[k].e, Post(full_content, matches[k].e))),
                          matches, k - 1)

\* lines 163-177: the description
BCADescription(full_content, matches) ==
    Strip(CollapseSpaces(BCARemoveAmounts(full_content, full_content, matches, Len(matches))))

\* the date built with day and month in each other's place
DateOrFallbackMonthFirst(yr, month, day) ==
    IF ValidDate(yr, day, month) THEN MkDate(yr, day, month)
    ELSE IF ValidDate(yr, 1, 1) THEN MkDate(yr, 1, 1)
    ELSE NoDate

\* lines 66-73: datetime(year, month, day), with the fallback datetime(year, 1, 1) when it
\* raises; NoDate when the fallback raises too
DateOrFallback(yr, month, day) ==
    IF ValidDate(yr, month, day) THEN MkDate(yr, month, day)
    ELSE IF ValidDate(yr, 1, 1) THEN MkDate(yr, 1, 1)
    ELSE NoDate

\* lines 64-73: the transaction date of a start line
BCADate(line, yr) ==
    DateOrFallback(yr, DigitsVal(SubSeq(line, 4, 5)), DigitsVal(SubSeq(line, 1, 2)))

\* lines 198-201: the balance is missing and an opening balance is known
BCAInfers(balance, opening) == balance = 0 /\ opening > 0

\* lines 201-205: the accumulator moved by the amount
BCAMoved(tx_type, amount, running) ==
    IF tx_type = "DEBIT" THEN running - amount ELSE running + amount

\* lines 198-208: the balance the transaction is emitted with
BCABackfill(balance, tx_type, amount, opening, running) ==
    IF BCAInfers(balance, opening) THEN BCAMoved(tx_type, amount, running) ELSE balance

\* the accumulator that is never set to a balance read from the statement
BCARunningNoHardSet(balance, tx_type, amount, opening, running) ==
    IF BCAInfers(balance, opening) THEN BCAMoved(tx_type, amount, running) ELSE running

\* lines 198-208: the accumulator after the transaction
BCARunning(balance, tx_type, amount, opening, running) ==
    IF BCAInfers(balance, opening) THEN BCAMoved(tx_type, amount, running)
    ELSE IF balance > 0 THEN balance
    ELSE running

\* lines 187-210: the record of a transaction with the given fields
BCARecord(tx_date, description, amount, tx_type, balance, opening, running, page, j, next) ==
    [ date        |-> tx_date,
      description |-> description,
      amount      |-> amount,
      type        |-> tx_type,
      balance     |-> BCABackfill(balance, tx_type, amount, opening, running),
      bank_name   |-> "BCA",
      src_balance |-> balance,
      src_page    |-> page,
      src_line    |-> j,
      src_next    |-> next ]

\* lines 111-210: the transaction read from full_content and its matches
BCAFromMatches(full_content, matches, tx_date, opening, running, page, j, next) ==
    BCARecord(tx_date,
              BCADescription(full_content, matches),
              BCAAmount(full_content, matches),
              BCAType(full_content, matches),
              BCABalance(full_content, matches),
              opening, running, page, j, next)

\* lines 100-111: the collected lines joined and searched for numeric tokens
BCAFromContent(full_content, tx_date, opening, running, page, j, next) ==
    BCAFromMatches(full_content, FindAll(full_content, NumRe),
                   tx_date, opening, running, page, j, next)

BCAFromLines(col, tx_date, opening, running, page, j) ==
    BCAFromContent(Join(<<" ">>, col.tx_lines), tx_date, opening, running, page, j, col.i)

\* lines 63-210: the transaction that starts at line index j of the page
BCATransaction(lines, j, page, yr, opening, running) ==
    BCAFromLines(BCACollect(lines, j + 1, <<BCARestOfLine(Strip(lines[j + 1]))>>),
                 BCADate(Strip(lines[j + 1]), yr),
                 opening, running, page, j)

\* datetime.now().year at the time of the run (line 10)
NowYear == 2026

\* lines 14-31, given the first page's text
BCAReadHeader(first_page_text) ==
    /\ opening_balance' = IF first_page_text # <<>>
                          THEN BCAOpeningBalance(first_page_text) ELSE 0
    /\ year' = IF first_page_text # <<>> THEN BCAYear(first_page_text, NowYear) ELSE NowYear

\* lines 10-47: the header pass over the first page
BCAParseHeader ==
    /\ grammar = "A"
    /\ pc = "header"
    /\ BCAReadHeader(PageText(pages[1]))
    /\ running_balance' = opening_balance'
    /\ pc' = "scan"
    /\ pg' = 1
    /\ i' = 0
    /\ UNCHANGED <<run, grammar, pages, grid, cols, transactions>>

\* lines 49-56: the page is exhausted (or has no text), go to the next page
BCAParseNextPage ==
    /\ grammar = "A"
    /\ pc = "scan"
    /\ pg <= Len(pages)
    /\ i >= Len(pages[pg])
    /\ pg' = pg + 1
    /\ i' = 0
    /\ UNCHANGED <<run, grammar, pages, grid, cols, pc, year, opening_balance, running_balance, transactions>>

\* lines 56-62 and 214: a line that starts no transaction
BCAParseSkipLine ==
    /\ grammar = "A"
    /\ pc = "scan"
    /\ pg <= Len(pages)
    /\ i < Len(pages[pg])
    /\ ~BCAIsStart(Strip(pages[pg][i + 1]))
    /\ i' = i + 1
    /\ UNCHANGED <<run, grammar, pages, grid, cols, pc, pg, year, opening_balance, running_balance, transactions>>

\* lines 62-212: a start line, its continuation lines and the transaction they yield;
\* parse() raises when the fallback date itself cannot be built
BCAParseTransaction ==
    /\ grammar = "A"
    /\ pc = "scan"
    /\ pg <= Len(pages)
    /\ i < Len(pages[pg])
    /\ BCAIsStart(Strip(pages[pg][i + 1]))
    /\ \E tr \in {BCATransaction(pages[pg], i, pg, year, opening_balance, running_balance)} :
          IF tr.date = NoDate
          THEN /\ pc' = "raised"
               /\ UNCHANGED <<i, running_balance, transactions>>
          ELSE /\ transactions' = Append(transactions, tr)
               /\ running_balance' = BCARunning(tr.src_balance, tr.type, tr.amount,
                                                opening_balance, running_balance)
               /\ i' = tr.src_next
               /\ pc' = pc
    /\ UNCHANGED <<run, grammar, pages, grid, cols, pg, year, opening_balance>>

\* line 216
BCAParseReturn ==
    /\ grammar = "A"
    /\ pc = "scan"
    /\ pg > Len(pages)
    /\ pc' = "done"
    /\ UNCHANGED <<run, grammar, pages, grid, cols, pg, i, year, opening_balance, running_balance, transactions>>

NextA ==
    \/ BCAParseHeader
    \/ BCAParseNextPage
    \/ BCAParseSkipLine
    \/ BCAParseTransaction
    \/ BCAParseReturn

-----------------------------------------------------------------------------
(* Grammar B: CIMB PDF                                                     *)

sSaldoAwal == <<"S", "a", "l", "d", "o", " ", "A", "w", "a", "l">>

sSaldoAkhir == <<"S", "a", "l", "d", "o", " ", "A", "k", "h", "i", "r">>

sSaldo == <<"S", "a", "l", "d", "o">>

sPage == <<"P", "a", "g", "e">>

\* the month alternation Jan|Feb|...|Dec under IGNORECASE
MonthWords == {Upper(MonthNames[k]) : k \in 1..12}

\* ^(\d{2})\s+(Jan|...|Dec)\s+(\d{4}) with IGNORECASE (lines 49 and 128)
CIMBDateRe ==
    <<Exactly(Digit, 2), Some(Space), OneOf(MonthWords, 3), Some(Space), Exactly(Digit, 4)>>

\* the end of the date match, or -1
CIMBDateEnd(line) == MatchEnd(line, 0, CIMBDateRe)

\* line 51: the line starts a transaction
CIMBIsStart(line) == CIMBDateEnd(line) # -1 /\ ~Contains(sSALDO_AWAL, line)

\* lines 52-56: day, month and year of a date match m, not yet checked as a calendar date
CIMBDateFields(line, m) ==
    MkDate(DigitsVal(Slice(line, m[5], m[6])),
           MonthOf(Title(Slice(line, m[3], m[4]))),
           DigitsVal(Slice(line, m[1], m[2])))

CIMBDateOf(line) == CIMBDateFields(line, Match(line, 0, CIMBDateRe))

\* the index of the last match with a leading '-'
CIMBLastNegative(str, amount_matches) ==
    Max(0, Greatest({k \in 1..Len(amount_matches) : str[amount_matches[k].s + 1] = "-"}))

\* lines 86-93: the index of the first match with a leading '-' 0 when there is none
CIMBFirstNegative(str, amount_matches) ==
    Max(0, Least({k \in 1..Len(amount_matches) : str[amount_matches[k].s + 1] = "-"}))

\* the match at index neg when there is one, else the first match
CIMBAmountAt(neg) == IF neg # 0 THEN neg ELSE 1

\* lines 82-99: the index of the match taken as the amount (0: no match)
CIMBAmountIndex(str, amount_matches) ==
    IF amount_matches = <<>> THEN 0
    ELSE CIMBAmountAt(CIMBFirstNegative(str, amount_matches))

\* lines 82-99: the amount, given the index of its match
CIMBAmountOf(str, amount_matches, k) ==
    IF k = 0 THEN 0 ELSE Abs(SignedValue(Token(str, amount_matches[k])))

CIMBAmount(str, amount_matches) ==
    CIMBAmountOf(str, amount_matches, CIMBAmountIndex(str, amount_matches))

\* lines 75 and 86-99: DEBIT when a match has a leading '-'
CIMBType(str, amount_matches) ==
    IF CIMBFirstNegative(str, amount_matches) # 0 THEN "DEBIT" ELSE "CREDIT"

\* the balance taken from the last match even when it is the only one
CIMBBalanceAnyToken(str, amount_matches) ==
    IF amount_matches # <<>>
    THEN SignedValue(Token(str, amount_matches[Len(amount_matches)]))
    ELSE 0

\* lines 101-109: the balance is the last match when there are several, 0 otherwise
CIMBBalance(str, amount_matches) ==
    IF /\ Len(amount_matches) > 1
       /\ amount_matches[Len(amount_matches)].s # amount_matches[1].s
    THEN SignedValue(Token(str, amount_matches[Len(amount_matches)]))
    ELSE 0

\* lines 118-121: the matches cut out of the first line, last match first
RECURSIVE CIMBRemoveAmounts(_, _, _)
CIMBRemoveAmounts(desc_part, amount_matches, k) ==
    IF k = 0 THEN desc_part
    ELSE CIMBRemoveAmounts(Cut(desc_part, amount_matches[k].s, amount_matches[k].e),
                           amount_matches, k - 1)

\* lines 131-133: the banner lines that end a transaction
CIMBIsFooter(next_line) ==
    /\ Contains(sPage, next_line) \/ Contains(sSaldo, next_line)
    /\ Contains(sSaldoAwal, next_line) \/ Contains(sSaldoAkhir, next_line)

\* lines 126-136: the collecting loop from index j on
RECURSIVE CIMBCollect(_, _, _)
RECURSIVE CIMBCollectLine(_, _, _, _)
CIMBCollect(lines, j, tx_lines) ==
    IF j >= Len(lines) THEN [i |-> j, tx_lines |-> tx_lines]
    ELSE CIMBCollectLine(lines, j, tx_lines, Strip(lines[j + 1]))

CIMBCollectLine(lines, j, tx_lines, next_line) ==
    IF CIMBDateEnd(next_line) # -1 \/ CIMBIsFooter(next_line)
    THEN [i |-> j, tx_lines |-> tx_lines]
    ELSE CIMBCollect(lines, j + 1, Append(tx_lines, next_line))

\* lines 138-152: the record of a transaction, given the collected lines
CIMBRecord(tx_date, col, amount, tx_type, balance, page, j) ==
    [ date        |-> tx_date,
      description |-> Strip(CollapseSpaces(Join(<<" ">>, col.tx_lines))),
      amount      |-> amount,
      type        |-> tx_type,
      balance     |-> balance,
      bank_name   |-> "CIMB",
      src_balance |-> balance,
      src_page    |-> page,
      src_line    |-> j,
      src_next    |-> col.i ]

\* lines 73-152: the transaction read from rest_of_line and its matches
CIMBFromMatches(lines, j, page, tx_date, rest_of_line, amount_matches) ==
    CIMBRecord(tx_date,
               CIMBCollect(lines, j + 1,
                           <<Strip(CIMBRemoveAmounts(rest_of_line, amount_matches,
                                                     Len(amount_matches)))>>),
               CIMBAmount(rest_of_line, amount_matches),
               CIMBType(rest_of_line, amount_matches),
               CIMBBalance(rest_of_line, amount_matches),
               page, j)

\* lines 60-71: what follows the date on the start line, searched for signed tokens
CIMBFromRest(lines, j, page, tx_date, rest_of_line) ==
    CIMBFromMatches(lines, j, page, tx_date, rest_of_line, FindAll(rest_of_line, SignedRe))

CIMBFromLine(lines, j, page, line) ==
    CIMBFromRest(lines, j, page, CIMBDateOf(line), Strip(SliceFrom(line, CIMBDateEnd(line))))

\* lines 52-152: the transaction that starts at line index j of the page
CIMBTransaction(lines, j, page) == CIMBFromLine(lines, j, page, Strip(lines[j + 1]))

\* lines 19-35: the header pass reads the account number and the owner only
CIMBParseHeader ==
    /\ grammar = "B"
    /\ pc = "header"
    /\ pc' = "scan"
    /\ pg' = 1
    /\ i' = 0
    /\ UNCHANGED <<run, grammar, pages, grid, cols, year, opening_balance, running_balance, transactions>>

\* lines 37-44
CIMBParseNextPage ==
    /\ grammar = "B"
    /\ pc = "scan"
    /\ pg <= Len(pages)
    /\ i >= Len(pages[pg])
    /\ pg' = pg + 1
    /\ i' = 0
    /\ UNCHANGED <<run, grammar, pages, grid, cols, pc, year, opening_balance, running_balance, transactions>>

\* lines 44-51 and 156
CIMBParseSkipLine ==
    /\ grammar = "B"
    /\ pc = "scan"
    /\ pg <= Len(pages)
    /\ i < Len(pages[pg])
    /\ ~CIMBIsStart(Strip(pages[pg][i + 1]))
    /\ i' = i + 1
    /\ UNCHANGED <<run, grammar, pages, grid, cols, pc, pg, year, opening_balance, running_balance, transactions>>

\* lines 51-154; datetime() at line 57 raises ValueError, which nothing in parse() catches
CIMBParseTransaction ==
    /\ grammar = "B"
    /\ pc = "scan"
    /\ pg <= Len(pages)
    /\ i < Len(pages[pg])
    /\ CIMBIsStart(Strip(pages[pg][i + 1]))
    /\ \E tr \in {CIMBTransaction(pages[pg], i, pg)} :
          IF ~ValidDate(tr.date.y, tr.date.m, tr.date.d)
          THEN /\ pc' = "raised"
               /\ UNCHANGED <<i, transactions>>
          ELSE /\ transactions' = Append(transactions, tr)
               /\ i' = tr.src_next
               /\ pc' = pc
    /\ UNCHANGED <<run, grammar, pages, grid, cols, pg, year, opening_balance, running_balance>>

\* line 158
CIMBParseReturn ==
    /\ grammar = "B"
    /\ pc = "scan"
    /\ pg > Len(pages)
    /\ pc' = "done"
    /\ UNCHANGED <<run, grammar, pages, grid, cols, pg, i, year, opening_balance, running_balance, transactions>>

NextB ==
    \/ CIMBParseHeader
    \/ CIMBParseNextPage
    \/ CIMBParseSkipLine
    \/ CIMBParseTransaction
    \/ CIMBParseReturn

-----------------------------------------------------------------------------
(* Grammar C: Mandiri PDF                                                  *)

sWIB == <<"W", "I", "B">>

sNo_ == <<"N", "o", " ">>

sPT_Bank == <<"P", "T", " ", "B", "a", "n", "k">>

sEStatement == <<"e", "-", "S", "t", "a", "t", "e", "m", "e", "n", "t">>

\* the prefixes that keep the line after a bare timestamp out of the description (line 131)
RefStops == {<<"P", "e", "m", "b", "a", "y", "a", "r", "a", "n">>, <<"T", "r", "a", "n", "s", "f", "e", "r">>, sPT_Bank, sEStatement, sNo_}

DotNumChar == Digit \cup {"."}

\* ^(\d{2})\s+(\w+)\s+(\d{4}) (lines 58, 90, 124 and 131)
MandiriDateRe ==
    <<Exactly(Digit, 2), Some(Space), Some(WordChar), Some(Space), Exactly(Digit, 4)>>

\* the end of the date match, or -1
MandiriDateEnd(line) == MatchEnd(line, 0, MandiriDateRe)

\* line 66: datetime.strptime(day + ' ' + month + ' ' + year, "%d %b %Y"), NoDate when
\* it raises
MandiriStrptime(day, name, yr) ==
    IF (\E k \in 1..12 : MonthNames[k] = name) /\ ValidDate(yr, MonthOf(name), day)
    THEN MkDate(yr, MonthOf(name), day)
    ELSE NoDate

\* lines 61-66: the date of a date match m
MandiriDateFields(line, m) ==
    MandiriStrptime(DigitsVal(Slice(line, m[1], m[2])),
                    Title(Slice(line, m[3], m[4])),
                    DigitsVal(Slice(line, m[5], m[6])))

MandiriDateOf(line) == MandiriDateFields(line, Match(line, 0, MandiriDateRe))

\* [\d.]+,\d{2}\s+[\d.]+,\d{2} (line 100)
TwoAmountsRe ==
    <<Some(DotNumChar), Lit(<<",">>), Exactly(Digit, 2), Some(Space),
      Some(DotNumChar), Lit(<<",">>), Exactly(Digit, 2)>>

MandiriHasTwoAmounts(s) == SearchFrom(s, 0, TwoAmountsRe) # -1

\* [+-]?\d{1,3}(?:\.\d{3})*,\d{2} (line 101)
MandiriAmountRe ==
    <<Opt({"+", "-"}), Rep(Digit, 1, 3), Groups(<<".">>, Digit, 3), Lit(<<",">>), Exactly(Digit, 2)>>

\* lines 35-37: float() of digits ',' two digits once the dots are removed, in hundredths
MandiriFloat(s) ==
    100 * DigitsVal(SubSeq(s, 1, Len(s) - 3)) + DigitsVal(SubSeq(s, Len(s) - 1, Len(s)))

\* lines 32-38: a stripped token of the amount pattern
MandiriSigned(s) ==
    IF s[1] = "-"
    THEN 0 - MandiriFloat(Remove(SliceFrom(s, RunEnd(s, 0, {"+", "-"})), "."))
    ELSE MandiriFloat(Remove(SliceFrom(s, RunEnd(s, 0, {"+", "-"})), "."))

\* lines 29-40: _parse_amount of a token the amount pattern matched, in hundredths
MandiriParseAmount(amount_str) ==
    IF amount_str = <<>> THEN 0 ELSE MandiriSigned(Strip(amount_str))

\* s[e:] when the pattern matched up to e, s when it did not (e = -1)
SubPrefixAt(s, e) == IF e = -1 THEN s ELSE SliceFrom(s, e)

\* re.sub('^' + items, '', s)
SubPrefix(s, items) == SubPrefixAt(s, MatchEnd(s, 0, items))

\* ^\d{2}:\d{2}:\d{2} (line 127)
TimeRe == <<Exactly(Digit, 2), Lit(<<":">>), Exactly(Digit, 2), Lit(<<":">>), Exactly(Digit, 2)>>

\* \d{2}:\d{2}:\d{2}\s+WIB
TimeWIBRe == TimeRe \o <<Some(Space), Lit(sWIB)>>

\* <<s>> when s is not empty
NonEmpty(s) == IF s = <<>> THEN <<>> ELSE <<s>>

\* lines 105-108: the text before the first amount, when it is appended
MandiriBefore(before_amount) ==
    IF before_amount # <<>> /\ ~AllDigits(before_amount) THEN <<before_amount>> ELSE <<>>

MandiriBeforeAmount(next_line, matches) ==
    IF matches = <<>> THEN <<>>
    ELSE MandiriBefore(SubPrefix(Strip(Slice(next_line, 0, matches[1].s)),
                                 <<Rep(Digit, 1, 2), Some(Space)>>))

\* lines 123-125: the text after a timestamp, when it is appended
MandiriAfterTs(after_ts) ==
    IF after_ts # <<>> /\ MandiriDateEnd(after_ts) = -1 THEN <<after_ts>> ELSE <<>>

\* the line after a bare timestamp appended whatever it starts with
MandiriRefAnyPrefix(j, ref_code) ==
    IF ref_code # <<>> /\ MandiriDateEnd(ref_code) = -1
    THEN [i |-> j + 1, add |-> <<ref_code>>]
    ELSE [i |-> j, add |-> <<>>]

\* lines 129-133: the line after a bare timestamp, at index j
MandiriRef(j, ref_code) ==
    IF /\ ref_code # <<>>
       /\ MandiriDateEnd(ref_code) = -1
       /\ ~\E x \in RefStops : StartsWith(ref_code, x)
    THEN [i |-> j + 1, add |-> <<ref_code>>]
    ELSE [i |-> j, add |-> <<>>]

\* lines 120-133: the line skip_ts at index j; e is the end of the match of
\* ^(\d{2}:\d{2}:\d{2}\s+WIB)\s+(.*) before group 2, or -1
MandiriLookAt(lines, j, skip_ts, e) ==
    IF e # -1 THEN [i |-> j + 1, add |-> MandiriAfterTs(Strip(SliceFrom(skip_ts, e)))]
    ELSE IF MatchEnd(skip_ts, 0, TimeRe) = -1 THEN [i |-> j, add |-> <<>>]
    ELSE IF j + 1 >= Len(lines) THEN [i |-> j + 1, add |-> <<>>]
    ELSE MandiriRef(j + 1, Strip(lines[j + 2]))

\* the lookahead that takes two lines whatever follows the amount line
MandiriLookaheadTwo(lines, j) == [i |-> j + 2, add |-> <<>>]

\* lines 118-133: the lookahead after the amount line, from index j on: the index the
\* scan resumes at and the fragments appended to desc_lines
MandiriLookahead(lines, j) ==
    IF j >= Len(lines) THEN [i |-> j, add |-> <<>>]
    ELSE MandiriLookAt(lines, j, Strip(lines[j + 1]),
                       MatchEnd(Strip(lines[j + 1]), 0, TimeWIBRe \o <<Some(Space)>>))

\* line 93: the structural banners that end a transaction
MandiriIsBanner(next_line) ==
    \/ StartsWith(next_line, sNo_)
    \/ Contains(sPT_Bank, next_line)
    \/ StartsWith(next_line, sEStatement)

\* lines 100-134: the amount line, its matches and the lookahead after it
MandiriAmountLine(desc_lines, next_line, matches, look) ==
    [ i          |-> look.i,
      desc_lines |-> desc_lines \o MandiriBeforeAmount(next_line, matches) \o look.add,
      amt        |-> [k \in 1..Len(matches) |-> Token(next_line, matches[k])] ]

\* lines 87-137: the collecting loop from index j on: the index it stops at, desc_lines,
\* and the tokens of the amount line (<<>> when no amount line was reached)
RECURSIVE MandiriCollect(_, _, _)
RECURSIVE MandiriCollectLine(_, _, _, _)
MandiriCollect(lines, j, desc_lines) ==
    IF j >= Len(lines) THEN [i |-> j, desc_lines |-> desc_lines, amt |-> <<>>]
    ELSE MandiriCollectLine(lines, j, desc_lines, Strip(lines[j + 1]))

MandiriCollectLine(lines, j, desc_lines, next_line) ==
    IF MandiriDateEnd(next_line) # -1 \/ MandiriIsBanner(next_line)
    THEN [i |-> j, desc_lines |-> desc_lines, amt |-> <<>>]
    ELSE IF next_line = <<>> \/ next_line = sWIB
    THEN MandiriCollect(lines, j + 1, desc_lines)
    ELSE IF MandiriHasTwoAmounts(next_line)
    THEN MandiriAmountLine(desc_lines, next_line, FindAll(next_line, MandiriAmountRe),
                           MandiriLookahead(lines, j + 1))
    ELSE MandiriCollect(lines, j + 1, Append(desc_lines, next_line))

\* ^No\s+Date\s+Remarks\s+Amount\s+\(\w+\)\s+Balance\s+\(\w+\)\s* with IGNORECASE
BannerRe ==
    <<LitI(<<"N", "O">>), Some(Space), LitI(<<"D", "A", "T", "E">>), Some(Space), LitI(<<"R", "E", "M", "A", "R", "K", "S">>), Some(Space),
      LitI(<<"A", "M", "O", "U", "N", "T">>), Some(Space), Lit(<<"(">>), Some(WordChar), Lit(<<")">>), Some(Space),
      LitI(<<"B", "A", "L", "A", "N", "C", "E">>), Some(Space), Lit(<<"(">>), Some(WordChar), Lit(<<")">>), Star(Space)>>

\* ^\d+\s+dari\s+\d+ with IGNORECASE
PageCounterRe == <<Some(Digit), Some(Space), LitI(<<"D", "A", "R", "I">>), Some(Space), Some(Digit)>>

\* 4\s+of\s+7 with IGNORECASE
FourOfSevenRe == <<Lit(<<"4">>), Some(Space), LitI(<<"O", "F">>), Some(Space), Lit(<<"7">>)>>

\* .*?4\s+of\s+7 after the digits s[a:b]: the end of the match, or -1; q is the leftmost
\* offset of 4\s+of\s+7 from b on, and \d+ gives its last digit back when there is none
PageCounterEnd(s, a, b, q) ==
    IF q # -1 THEN MatchEnd(s, q, FourOfSevenRe)
    ELSE IF b - 1 > a THEN MatchEnd(s, b - 1, FourOfSevenRe)
    ELSE -1

PageCounterCut(s, m) ==
    IF m = <<>> THEN s
    ELSE SubPrefixAt(s, PageCounterEnd(s, m[5], m[6], SearchFrom(s, m[6], FourOfSevenRe)))

\* re.sub(r'^\d+\s+dari\s+\d+.*?4\s+of\s+7', '', s) with IGNORECASE (line 143)
StripPageCounter(s) == PageCounterCut(s, Match(s, 0, PageCounterRe))

\* lines 139-144: the description built from desc_lines
MandiriDescription(desc_lines) ==
    Strip(CollapseSpaces(StripPageCounter(SubPrefix(
        SubAllFrom(SubPrefix(Strip(Join(<<" ">>, desc_lines)), <<Some(Digit), Some(Space)>>),
                   0, TimeWIBRe \o <<Star(Space)>>),
        BannerRe))))

\* the line before the date line as a leading fragment whatever its length
MandiriLeadingAnyLength(prev_line) ==
    IF prev_line # <<>> /\ prev_line[1] \notin Digit /\ prev_line # sWIB
    THEN <<prev_line>> ELSE <<>>

\* lines 74-77: the line before the date line, when it is a leading fragment
MandiriLeadingLine(prev_line) ==
    IF /\ prev_line # <<>>
       /\ prev_line[1] \notin Digit
       /\ prev_line # sWIB
       /\ Len(prev_line) < 50
    THEN <<prev_line>> ELSE <<>>

MandiriLeading(lines, j) == IF j = 0 THEN <<>> ELSE MandiriLeadingLine(Strip(lines[j]))

\* lines 110-113: the signed value of the first token of the amount line
MandiriAmountValue(amt) == IF amt = <<>> THEN 0 ELSE MandiriParseAmount(amt[1])

\* lines 72 and 113
MandiriType(amt, amt_val) == IF amt = <<>> \/ amt_val < 0 THEN "DEBIT" ELSE "CREDIT"

\* the balance taken from the second token of the amount line
MandiriBalanceSecond(amt) == IF Len(amt) > 1 THEN MandiriParseAmount(amt[2]) ELSE 0

\* lines 84 and 115-116
MandiriBalance(amt) == IF Len(amt) > 1 THEN MandiriParseAmount(amt[Len(amt)]) ELSE 0

\* lines 146-157: the candidate transaction
MandiriRecord(tx_date, description, amt_val, tx_type, balance, page, j, next) ==
    [ date        |-> tx_date,
      description |-> description,
      amount      |-> Abs(amt_val),
      type        |-> tx_type,
      balance     |-> balance,
      bank_name   |-> "Mandiri",
      src_balance |-> balance,
      src_page    |-> page,
      src_line    |-> j,
      src_next    |-> next ]

MandiriFromAmount(tx_date, col, amt_val, page, j) ==
    MandiriRecord(tx_date, MandiriDescription(col.desc_lines), amt_val,
                  MandiriType(col.amt, amt_val), MandiriBalance(col.amt), page, j, col.i)

MandiriFromCollected(tx_date, col, page, j) ==
    MandiriFromAmount(tx_date, col, MandiriAmountValue(col.amt), page, j)

MandiriFromLine(lines, j, page, line) ==
    MandiriFromCollected(
        MandiriDateOf(line),
        MandiriCollect(lines, j + 1,
                       MandiriLeading(lines, j)
                           \o NonEmpty(Strip(SliceFrom(line, MandiriDateEnd(line))))),
        page, j)

\* lines 71-158: the candidate transaction that starts at the date line at index j
MandiriTransaction(lines, j, page) == MandiriFromLine(lines, j, page, Strip(lines[j + 1]))

\* the candidate emitted whatever its amount
MandiriEmitsDescribed(tr) == tr.description # <<>>

\* line 146: the candidate is emitted
MandiriEmits(tr) == tr.description # <<>> /\ tr.amount > 0

\* lines 42-46: parse() reads no header; the header is read by the constructor
MandiriParseHeader ==
    /\ grammar = "C"
    /\ pc = "header"
    /\ pc' = "scan"
    /\ pg' = 1
    /\ i' = 0
    /\ UNCHANGED <<run, grammar, pages, grid, cols, year, opening_balance, running_balance, transactions>>

\* lines 48-56
MandiriParseNextPage ==
    /\ grammar = "C"
    /\ pc = "scan"
    /\ pg <= Len(pages)
    /\ i >= Len(pages[pg])
    /\ pg' = pg + 1
    /\ i' = 0
    /\ UNCHANGED <<run, grammar, pages, grid, cols, pc, year, opening_balance, running_balance, transactions>>

\* lines 56-60 and 159-160: a line that is no date line
MandiriParseSkipLine ==
    /\ grammar = "C"
    /\ pc = "scan"
    /\ pg <= Len(pages)
    /\ i < Len(pages[pg])
    /\ MandiriDateEnd(Strip(pages[pg][i + 1])) = -1
    /\ i' = i + 1
    /\ UNCHANGED <<run, grammar, pages, grid, cols, pc, pg, year, opening_balance, running_balance, transactions>>

\* lines 60-69: a date line whose date strptime rejects
MandiriParseBadDate ==
    /\ grammar = "C"
    /\ pc = "scan"
    /\ pg <= Len(pages)
    /\ i < Len(pages[pg])
    /\ MandiriDateEnd(Strip(pages[pg][i + 1])) # -1
    /\ MandiriDateOf(Strip(pages[pg][i + 1])) = NoDate
    /\ i' = i + 1
    /\ UNCHANGED <<run, grammar, pages, grid, cols, pc, pg, year, opening_balance, running_balance, transactions>>

\* lines 60-158: a date line and the candidate transaction it starts
MandiriParseTransaction ==
    /\ grammar = "C"
    /\ pc = "scan"
    /\ pg <= Len(pages)
    /\ i < Len(pages[pg])
    /\ MandiriDateEnd(Strip(pages[pg][i + 1])) # -1
    /\ MandiriDateOf(Strip(pages[pg][i + 1])) # NoDate
    /\ \E tr \in {MandiriTransaction(pages[pg], i, pg)} :
          /\ transactions' = IF MandiriEmits(tr) THEN Append(transactions, tr) ELSE transactions
          /\ i' = tr.src_next
    /\ UNCHANGED <<run, grammar, pages, grid, cols, pc, pg, year, opening_balance, running_balance>>

\* line 165
MandiriParseReturn ==
    /\ grammar = "C"
    /\ pc = "scan"
    /\ pg > Len(pages)
    /\ pc' = "done"
    /\ UNCHANGED <<run, grammar, pages, grid, cols, pg, i, year, opening_balance, running_balance, transactions>>

NextC ==
    \/ MandiriParseHeader
    \/ MandiriParseNextPage
    \/ MandiriParseSkipLine
    \/ MandiriParseBadDate
    \/ MandiriParseTransaction
    \/ MandiriParseReturn

-----------------------------------------------------------------------------
(* Tabular grammar: Mandiri XLSX                                           *)
(* A cell is NaN, a whole number, a string or a native date.               *)

NaN == [k |-> "nan", n |-> 0, s |-> <<>>, d |-> NoDate]

Num(n) == [k |-> "num", n |-> n, s |-> <<>>, d |-> NoDate]

Str(s) == [k |-> "str", n |-> 0, s |-> s, d |-> NoDate]

DateCell(y, m, d) == [k |-> "date", n |-> 0, s |-> <<>>, d |-> MkDate(y, m, d)]

DigitChars == <<"0", "1", "2", "3", "4", "5", "6", "7", "8", "9">>

\* str(n) of a natural number
RECURSIVE NatStr(_)
NatStr(n) ==
    IF n < 10 THEN <<DigitChars[n + 1]>> ELSE NatStr(n \div 10) \o <<DigitChars[(n % 10) + 1]>>

Pad2(n) == IF n < 10 THEN <<"0">> \o NatStr(n) ELSE NatStr(n)

\* str(x) of a cell
CellStr(x) ==
    CASE x.k = "nan"  -> <<"n", "a", "n">>
      [] x.k = "num"  -> IF x.n < 0 THEN <<"-">> \o NatStr(0 - x.n) ELSE NatStr(x.n)
      [] x.k = "str"  -> x.s
      [] x.k = "date" -> NatStr(x.d.y) \o <<"-">> \o Pad2(x.d.m) \o <<"-">> \o Pad2(x.d.d)
                           \o <<" ", "0", "0", ":", "0", "0", ":", "0", "0">>

sTanggal == <<"t", "a", "n", "g", "g", "a", "l">>

sUraian == <<"u", "r", "a", "i", "a", "n">>

sKeterangan == <<"k", "e", "t", "e", "r", "a", "n", "g", "a", "n">>

sSaldoLower == <<"s", "a", "l", "d", "o">>

DebitWords == {<<"d", "e", "b", "e", "t">>, <<"d", "e", "b", "i", "t">>, <<"d", "a", "n", "a", " ", "k", "e", "l", "u", "a", "r">>}

CreditWords == {<<"k", "r", "e", "d", "i", "t">>, <<"c", "r", "e", "d", "i", "t">>, <<"d", "a", "n", "a", " ", "m", "a", "s", "u", "k">>}

\* line 69: the row holds the date label and a description label
XLSXIsHeaderRow(row) ==
    /\ \E c \in 1..Len(row) : Contains(sTanggal, Lower(CellStr(row[c])))
    /\ \E c \in 1..Len(row) :
          \/ Contains(sUraian, Lower(CellStr(row[c])))
          \/ Contains(sKeterangan, Lower(CellStr(row[c])))

\* line 76: the first cell of the row holds the date label
XLSXIsFallbackHeader(row) == Len(row) >= 1 /\ Contains(sTanggal, Lower(CellStr(row[1])))

\* the 0-based index of the earlier of the rows the two passes find
XLSXFirstOfEither(full, fall) ==
    IF full # -1 /\ fall # -1 THEN Min(full, fall) - 1
    ELSE IF full # -1 THEN full - 1 ELSE IF fall # -1 THEN fall - 1 ELSE -1

\* the 0-based index of the first row found by the first pass, else by the second, else -1
XLSXFirstOf(full, fall) ==
    IF full # -1 THEN full - 1 ELSE IF fall # -1 THEN fall - 1 ELSE -1

\* lines 46-78: header_row_idx (0-based), -1 when there is none
XLSXHeaderRow(df) ==
    XLSXFirstOf(Least({r \in 1..Len(df) : XLSXIsHeaderRow(df[r])}),
                Least({r \in 1..Len(df) : XLSXIsFallbackHeader(df[r])}))

\* lines 116-122: the role of a header cell
XLSXRole(val) ==
    IF Contains(sTanggal, val) THEN "date"
    ELSE IF Contains(sUraian, val) \/ Contains(sKeterangan, val) THEN "desc"
    ELSE IF \E w \in DebitWords : Contains(w, val) THEN "debit"
    ELSE IF \E w \in CreditWords : Contains(w, val) THEN "credit"
    ELSE IF Contains(sSaldoLower, val) THEN "balance"
    ELSE "none"

\* lines 125-134: the 0-based index of the last cell with the role, else the fixed index
XLSXIndexOr(last, fallback) == IF last = -1 THEN fallback ELSE last - 1

\* lines 110-134: the column index of a role
XLSXColumn(header, role, fallback) ==
    XLSXIndexOr(Greatest({c \in 1..Len(header) : XLSXRole(Lower(CellStr(header[c]))) = role}),
                fallback)

NoCols == [header |-> -1, date |-> -1, desc |-> -1, debit |-> -1, credit |-> -1, balance |-> -1]

\* lines 106-138
XLSXColumns(header, header_row_idx) ==
    [ header  |-> header_row_idx,
      date    |-> XLSXColumn(header, "date", 4),
      desc    |-> XLSXColumn(header, "desc", 7),
      debit   |-> XLSXColumn(header, "debit", 18),
      credit  |-> XLSXColumn(header, "credit", 15),
      balance |-> XLSXColumn(header, "balance", 21) ]

\* float() of an unsigned body, the sign dropped
FloatOrZeroUnsigned(neg, body, dot) ==
    IF ~AllDigits(Remove(body, ".")) \/ Len(body) - Len(Remove(body, ".")) > 1 THEN 0
    ELSE IF DecimalValue(body, dot) = -1 THEN 0
    ELSE DecimalValue(body, dot)

\* float() of an unsigned body with a '.' at offset dot (-1: none), in hundredths, the
\* sign applied; 0 when float() raises (line 230).  Exponents, underscores, inf and nan are
\* taken to raise.
FloatOrZero(neg, body, dot) ==
    IF ~AllDigits(Remove(body, ".")) \/ Len(body) - Len(Remove(body, ".")) > 1 THEN 0
    ELSE IF DecimalValue(body, dot) = -1 THEN 0
    ELSE IF neg THEN 0 - DecimalValue(body, dot)
    ELSE DecimalValue(body, dot)

\* float(s) with its optional sign
FloatBody(neg, body) == FloatOrZero(neg, body, Find(<<".">>, body))

\* lines 225-230: the string once '.' is removed and ',' has become '.'
XLSXFloat(s) ==
    IF s = <<>> THEN 0
    ELSE IF s[1] \in {"+", "-"} THEN FloatBody(s[1] = "-", Tail(s))
    ELSE FloatBody(FALSE, s)

\* lines 217-230: the string of a cell that is no number
XLSXParseStr(s) == XLSXFloat(ReplaceChar(Remove(s, "."), ",", "."))

\* lines 214-230: _parse_amount, in hundredths
XLSXParseAmount(val) ==
    IF val.k = "nan" \/ Strip(CellStr(val)) = <<"-">> THEN 0
    ELSE IF val.k = "num" THEN 100 * val.n
    ELSE XLSXParseStr(Strip(RemoveAll(Strip(CellStr(val)), <<"R", "p">>, 0)))

\* the date with n1 and n2 as day and month: with dayfirst the first number is the day
\* unless only the other reading gives a month
DayFirst(n1, n2, yr) ==
    IF n1 > 12 \/ n2 <= 12
    THEN (IF ValidDate(yr, n2, n1) THEN MkDate(yr, n2, n1) ELSE NoDate)
    ELSE (IF ValidDate(yr, n1, n2) THEN MkDate(yr, n1, n2) ELSE NoDate)

\* D/M/YYYY: one or two digits, '/', one or two digits, '/', four digits
DayMonthYearRe ==
    <<Rep(Digit, 1, 2), Lit(<<"/">>), Rep(Digit, 1, 2), Lit(<<"/">>), Exactly(Digit, 4)>>

\* the date of a match m of D/M/YYYY that spans the string
ToDatetimeOf(s, m) ==
    IF m = <<>> \/ EndOf(m) # Len(s) THEN NoDate
    ELSE DayFirst(DigitsVal(Slice(s, m[1], m[2])), DigitsVal(Slice(s, m[3], m[4])),
                  DigitsVal(Slice(s, m[5], m[6])))

\* line 156: pd.to_datetime(s, dayfirst=True) of a string D/M/YYYY, NoDate when it
\* raises; any other string is taken to raise
ToDatetime(s) == ToDatetimeOf(s, Match(s, 0, DayMonthYearRe))

\* lines 154-156: the date of a string cell
XLSXStrDate(s) == IF s = <<>> \/ s[1] \notin Digit THEN NoDate ELSE ToDatetime(s)

\* lines 146-158: the date of the cell, NoDate when the row is skipped
XLSXCellDate(date_val) ==
    IF date_val.k = "nan" THEN NoDate
    ELSE IF date_val.k = "date" THEN date_val.d
    ELSE XLSXStrDate(Strip(CellStr(date_val)))

\* lines 144-158
XLSXRowDate(row, date_col_idx) ==
    IF date_col_idx >= Len(row) THEN NoDate ELSE XLSXCellDate(row[date_col_idx + 1])

\* lines 161-165
XLSXDescription(row, desc_col_idx) ==
    IF desc_col_idx >= Len(row) THEN <<>>
    ELSE CollapseSpaces(RemoveAll(ReplaceChar(Strip(CellStr(row[desc_col_idx + 1])),
                                              "\n", " "),
                                  <<"n", "a", "n">>, 0))

\* lines 168-182: the parsed value of the cell at a column, 0 when the row has no such column
XLSXAmountAt(row, idx) == IF idx < Len(row) THEN XLSXParseAmount(row[idx + 1]) ELSE 0

\* the direction with the credit cell looked at first
XLSXTypeCreditFirst(debit, credit) ==
    IF credit > 0 THEN "CREDIT"
    ELSE IF debit > 0 THEN "DEBIT"
    ELSE IF Max(debit, credit) = 0 THEN "skip"
    ELSE "DEBIT"

\* lines 184-192: the direction, "skip" when the row has no amount
XLSXType(debit, credit) ==
    IF debit > 0 THEN "DEBIT"
    ELSE IF credit > 0 THEN "CREDIT"
    ELSE IF Max(debit, credit) = 0 THEN "skip"
    ELSE "DEBIT"

\* lines 184-204: the transaction of a row, given its parsed cells
XLSXRecord(tx_date, description, debit, credit, balance, r) ==
    [ date        |-> tx_date,
      description |-> description,
      amount      |-> Max(debit, credit),
      type        |-> XLSXType(debit, credit),
      balance     |-> balance,
      bank_name   |-> "Mandiri",
      src_balance |-> balance,
      src_page    |-> 1,
      src_line    |-> r,
      src_next    |-> r + 1 ]

\* lines 141-204: the transaction of the row at index r (0-based)
XLSXTransaction(row, r, c) ==
    XLSXRecord(XLSXRowDate(row, c.date), XLSXDescription(row, c.desc),
               XLSXAmountAt(row, c.debit), XLSXAmountAt(row, c.credit),
               XLSXAmountAt(row, c.balance), r)

\* lines 147-158 and 191: the row yields a transaction
XLSXEmits(tr) == tr.date # NoDate /\ tr.type # "skip"

\* lines 45-79 and 106-138: the header row is found and the columns are mapped
XLSXParseHeader ==
    /\ grammar = "X"
    /\ pc = "header"
    /\ \E header_row_idx \in {XLSXHeaderRow(grid)} :
          /\ header_row_idx # -1
          /\ cols' = XLSXColumns(grid[header_row_idx + 1], header_row_idx)
          /\ i' = header_row_idx + 1
    /\ pc' = "scan"
    /\ UNCHANGED <<run, grammar, pages, grid, pg, year, opening_balance, running_balance, transactions>>

\* lines 80-82: no header row, parse() returns the empty list
XLSXParseNoHeader ==
    /\ grammar = "X"
    /\ pc = "header"
    /\ XLSXHeaderRow(grid) = -1
    /\ pc' = "done"
    /\ UNCHANGED <<run, grammar, pages, grid, cols, pg, i, year, opening_balance, running_balance, transactions>>

\* lines 140-158 and 184-191: a row without a usable date or without an amount
XLSXParseSkipRow ==
    /\ grammar = "X"
    /\ pc = "scan"
    /\ i < Len(grid)
    /\ ~XLSXEmits(XLSXTransaction(grid[i + 1], i, cols))
    /\ i' = i + 1
    /\ UNCHANGED <<run, grammar, pages, grid, cols, pc, pg, year, opening_balance, running_balance, transactions>>

\* lines 140-205: a row that yields a transaction
XLSXParseRow ==
    /\ grammar = "X"
    /\ pc = "scan"
    /\ i < Len(grid)
    /\ \E tr \in {XLSXTransaction(grid[i + 1], i, cols)} :
          /\ XLSXEmits(tr)
          /\ transactions' = Append(transactions, tr)
    /\ i' = i + 1
    /\ UNCHANGED <<run, grammar, pages, grid, cols, pc, pg, year, opening_balance, running_balance>>

\* line 212
XLSXParseReturn ==
    /\ grammar = "X"
    /\ pc = "scan"
    /\ i >= Len(grid)
    /\ pc' = "done"
    /\ UNCHANGED <<run, grammar, pages, grid, cols, pg, i, year, opening_balance, running_balance, transactions>>

NextX ==
    \/ XLSXParseHeader
    \/ XLSXParseNoHeader
    \/ XLSXParseSkipRow
    \/ XLSXParseRow
    \/ XLSXParseReturn

-----------------------------------------------------------------------------
(* Output configuration and rendering: config.py and base.py               *)
(* A mapping (dict) is a sequence of key/value pairs in insertion order.   *)
(* None is written <<>> where a value may be absent.                       *)

\* an OutputFormat that was not given or not constructed (None)
NoFormat == <<>>

\* nothing returned yet
NoResult == <<>>

\* no call of the callers under way: parse() is called on its own
NoArgs == [op |-> "parse"]

NoRun ==
    /\ args = NoArgs
    /\ output_format = NoFormat
    /\ result = NoResult
    /\ banks = <<>>
    /\ files = <<>>
    /\ total_processed = 0
    /\ written = <<>>

\* config.py lines 15-23: PRESETS, preset name and strftime format
PRESETS ==
    { [name |-> <<"d", "d", "/", "m", "m", "/", "y", "y", "y", "y">>, fmt |-> <<"%", "d", "/", "%", "m", "/", "%", "Y">>],
      [name |-> <<"d", "d", "m", "m", "y", "y", "y", "y">>, fmt |-> <<"%", "d", "%", "m", "%", "Y">>],
      [name |-> <<"m", "m", "y", "y", "y", "y">>, fmt |-> <<"%", "m", "%", "Y">>],
      [name |-> <<"m", "m", "m", "m">>, fmt |-> <<"%", "B">>],
      [name |-> <<"m", "m">>, fmt |-> <<"%", "b">>],
      [name |-> <<"d", "d", "/", "m", "m">>, fmt |-> <<"%", "d", "/", "%", "m">>],
      [name |-> <<"y", "y", "y", "y", "m", "m", "d", "d">>, fmt |-> <<"%", "Y", "%", "m", "%", "d">>] }

\* config.py line 42: format_string.lower() in PRESETS
IsPreset(format_string) == \E p \in PRESETS : p.name = Lower(format_string)

\* config.py line 43: PRESETS[format_string.lower()]
PresetOf(format_string) == (CHOOSE p \in PRESETS : p.name = Lower(format_string)).fmt

\* config.py line 47
HasMonth(format_string) ==
    \/ Contains(<<"%", "m">>, format_string)
    \/ Contains(<<"%", "b">>, format_string)
    \/ Contains(<<"%", "B">>, format_string)

\* config.py line 50
HasYear(format_string) == Contains(<<"%", "Y">>, format_string) \/ Contains(<<"%", "y">>, format_string)

\* what validate_and_get_format raises, as a value
ValueError == <<"ValueError">>

\* config.py lines 26-64: validate_and_get_format; the trial strftime of lines 59-64
\* does not raise on the directives modelled here
ValidateAndGetFormat(format_string) ==
    IF IsPreset(format_string) THEN PresetOf(format_string)
    ELSE IF ~HasMonth(format_string) \/ ~HasYear(format_string) THEN ValueError
    ELSE format_string

\* the full month names %B of strftime
FullMonthNames ==
    << <<"J", "a", "n", "u", "a", "r", "y">>, <<"F", "e", "b", "r", "u", "a", "r", "y">>, <<"M", "a", "r", "c", "h">>, <<"A", "p", "r", "i", "l">>, <<"M", "a", "y">>, <<"J", "u", "n", "e">>,
       <<"J", "u", "l", "y">>, <<"A", "u", "g", "u", "s", "t">>, <<"S", "e", "p", "t", "e", "m", "b", "e", "r">>, <<"O", "c", "t", "o", "b", "e", "r">>, <<"N", "o", "v", "e", "m", "b", "e", "r">>, <<"D", "e", "c", "e", "m", "b", "e", "r">> >>

\* str(n) zero-padded to four digits
Pad4(n) ==
    IF n < 10 THEN <<"0", "0", "0">> \o NatStr(n)
    ELSE IF n < 100 THEN <<"0", "0">> \o NatStr(n)
    ELSE IF n < 1000 THEN <<"0">> \o NatStr(n)
    ELSE NatStr(n)

\* what strftime writes for the directive %c: d m Y y b B and %%; any other character
\* is written as it stands, with its % sign
Directive(c, date) ==
    CASE c = "d" -> Pad2(date.d)
      [] c = "m" -> Pad2(date.m)
      [] c = "Y" -> Pad4(date.y)
      [] c = "y" -> Pad2(date.y % 100)
      [] c = "b" -> MonthNames[date.m]
      [] c = "B" -> FullMonthNames[date.m]
      [] c = "%" -> <<"%">>
      [] OTHER   -> <<"%", c>>

\* date.strftime(fmt) from offset k on
RECURSIVE StrftimeFrom(_, _, _)
StrftimeFrom(fmt, k, date) ==
    IF k >= Len(fmt) THEN <<>>
    ELSE IF fmt[k + 1] = "%" /\ k + 1 < Len(fmt)
    THEN Directive(fmt[k + 2], date) \o StrftimeFrom(fmt, k + 2, date)
    ELSE <<fmt[k + 1]>> \o StrftimeFrom(fmt, k + 1, date)

\* date.strftime(fmt)
Strftime(fmt, date) == StrftimeFrom(fmt, 0, date)

\* config.py lines 121-135: format_date; strftime does not raise on the directives
\* modelled here, so the fallback of lines 133-135 is not taken
FormatDate(self, date) == Strftime(self.date_format, date)

\* config.py line 119: the template given, or the default one
DefaultTemplate == <<"{", "b", "a", "n", "k", "}", "-", "[", "{", "o", "w", "n", "e", "r", "}", "]", "-", "{", "a", "c", "c", "o", "u", "n", "t", "}", "-", "{", "s", "t", "a", "r", "t", "_", "d", "a", "t", "e", "}", "-", "{", "e", "n", "d", "_", "d", "a", "t", "e", "}", ".", "c", "s", "v">>

FilenameFormatOr(filename_format) ==
    IF filename_format = <<>> THEN DefaultTemplate ELSE filename_format

\* config.py lines 110-119: the object __init__ builds once the date format is valid
OutputFormat(a, date_format) ==
    [ date_format          |-> date_format,
      combine_debit_credit |-> a.combine_debit_credit,
      include_reference    |-> a.include_reference,
      include_balance      |-> a.include_balance,
      include_bank         |-> a.include_bank,
      include_owner        |-> a.include_owner,
      currency             |-> a.currency,
      include_currency_col |-> a.include_currency_col,
      filename_format      |-> FilenameFormatOr(a.filename_format) ]

\* one column, or none
Column(included, name) == IF included THEN <<name>> ELSE <<>>

\* the currency column ahead of the amount columns
AmountColumnsCurrencyFirst(self) ==
    Column(self.include_currency_col, "Currency")
        \o (IF self.combine_debit_credit THEN <<"Amount">> ELSE <<"Debit", "Credit">>)

\* config.py lines 149-157: the amount columns
AmountColumns(self) ==
    (IF self.combine_debit_credit THEN <<"Amount">> ELSE <<"Debit", "Credit">>)
        \o Column(self.include_currency_col, "Currency")

\* config.py lines 137-168: get_column_names
GetColumnNames(self) ==
    <<"Date", "Description">>
        \o Column(self.include_reference, "Reference No")
        \o AmountColumns(self)
        \o Column(self.include_balance, "Balance")
        \o Column(self.include_bank, "Bank")
        \o Column(self.include_owner, "Owner")

\* base.py line 111: the columns of the default format
DefaultColumns ==
    <<"Date", "Description", "Reference No", "Debit", "Credit", "Balance", "Bank", "Owner">>

\* one key with its value
Pair(key, value) == <<[key |-> key, value |-> value]>>

\* one key with its value, or none
PairIf(included, key, value) == IF included THEN Pair(key, value) ELSE <<>>

\* base.py lines 39-40 and 63-64: the amount when the direction is the column's, else 0
AmountIf(t, type) == IF t.type = type THEN t.amount ELSE 0

\* the amount with no sign
SignedAmountUnsigned(t) == t.amount

\* base.py line 57: debit positive, credit negative
SignedAmount(t) == IF t.type = "DEBIT" THEN t.amount ELSE 0 - t.amount

\* base.py lines 60 and 66: self.currency or output_format.currency
CurrencyOf(t, fmt) == IF t.currency # <<>> THEN t.currency ELSE fmt.currency

\* base.py lines 55-66: the amount entries
AmountPairs(t, fmt) ==
    (IF fmt.combine_debit_credit
     THEN Pair("Amount", SignedAmount(t))
     ELSE Pair("Debit", AmountIf(t, "DEBIT")) \o Pair("Credit", AmountIf(t, "CREDIT")))
        \o PairIf(fmt.include_currency_col, "Currency", CurrencyOf(t, fmt))

\* base.py lines 33-44: the default format; strftime("%Y-%m-%d")
ToDictDefault(t) ==
    Pair("Date", Strftime(<<"%", "Y", "-", "%", "m", "-", "%", "d">>, t.date))
        \o Pair("Description", t.description)
        \o Pair("Reference No", t.reference_no)
        \o Pair("Debit", AmountIf(t, "DEBIT"))
        \o Pair("Credit", AmountIf(t, "CREDIT"))
        \o Pair("Balance", t.balance)
        \o Pair("Bank", t.bank_name)
        \o Pair("Owner", t.account_owner)

\* base.py lines 46-77: the custom format
ToDictCustom(t, fmt) ==
    Pair("Date", FormatDate(fmt, t.date))
        \o Pair("Description", t.description)
        \o PairIf(fmt.include_reference, "Reference No", t.reference_no)
        \o AmountPairs(t, fmt)
        \o PairIf(fmt.include_balance, "Balance", t.balance)
        \o PairIf(fmt.include_bank, "Bank", t.bank_name)
        \o PairIf(fmt.include_owner, "Owner", t.account_owner)

\* base.py lines 23-77: to_dict
ToDict(t, given) == IF given = NoFormat THEN ToDictDefault(t) ELSE ToDictCustom(t, given[1])

\* the keys of a mapping, in order
Keys(d) == [k \in 1..Len(d) |-> d[k].key]

\* base.py lines 106-111: the columns of the export
ExportColumns(given) ==
    IF given = NoFormat THEN DefaultColumns ELSE GetColumnNames(given[1])

\* base.py lines 113-116: the columns the frame lacks, added as empty columns
AddedColumns(names, columns) ==
    SelectSeq(names, LAMBDA c : \A k \in 1..Len(columns) : columns[k] # c)

\* base.py lines 103-119: the frame of the rendered transactions, the columns it is
\* written with and the columns that had to be added
ExportOf(data, names) ==
    [ data  |-> data,
      cols  |-> names,
      added |-> AddedColumns(names, Keys(data[1])) ]

\* config.py lines 110-111: __init__ raises what validate_and_get_format raises
ConstructRaises ==
    /\ pc = "construct"
    /\ ValidateAndGetFormat(args.date_format) = ValueError
    /\ pc' = "raised"
    /\ UNCHANGED <<grammar, pages, grid, cols, pg, i, year, opening_balance, running_balance,
                   transactions, run>>

\* config.py lines 110-119: __init__
Construct ==
    /\ pc = "construct"
    /\ \E date_format \in {ValidateAndGetFormat(args.date_format)} :
          /\ date_format # ValueError
          /\ output_format' = <<OutputFormat(args, date_format)>>
    /\ pc' = "call"
    /\ UNCHANGED <<grammar, pages, grid, cols, pg, i, year, opening_balance, running_balance,
                   transactions, args, result, banks, files, total_processed, written>>

\* base.py lines 98-101: export_csv of a parser whose parse() finds no transaction
ExportNothing ==
    /\ pc = "call"
    /\ args.op = "export_csv"
    /\ args.parsed = <<>>
    /\ transactions' = <<>>
    /\ pc' = "done"
    /\ UNCHANGED <<grammar, pages, grid, cols, pg, i, year, opening_balance, running_balance,
                   run>>

\* base.py lines 98-120: export_csv
ExportCsv ==
    /\ pc = "call"
    /\ args.op = "export_csv"
    /\ args.parsed # <<>>
    /\ transactions' = args.parsed
    /\ result' = ExportOf([k \in 1..Len(args.parsed) |-> ToDict(args.parsed[k], output_format)],
                          ExportColumns(output_format))
    /\ pc' = "done"
    /\ UNCHANGED <<grammar, pages, grid, cols, pg, i, year, opening_balance, running_balance,
                   args, output_format, banks, files, total_processed, written>>

\* the owner name stripped, then only its letters, whitespace and periods kept
SanitizeStripFirst(owner_name) ==
    SelectSeq(Strip(owner_name), LAMBDA c : c \in Letter \/ c \in Space \/ c = ".")

\* config.py lines 192-194: the owner name with only its letters, whitespace and periods
\* kept, stripped
Sanitize(owner_name) ==
    Strip(SelectSeq(owner_name, LAMBDA c : c \in Letter \/ c \in Space \/ c = "."))

\* process_statements.py line 72 and config.py lines 192-194: the owner name is
\* sanitized by process_file, and a name is sanitized by format_filename, which is
\* given here the name already sanitized
SanitizeOwner ==
    /\ pc = "call"
    /\ args.op = "sanitize"
    /\ result' = Append(result, Sanitize(IF result = NoResult THEN args.owner_name
                                         ELSE result[Len(result)]))
    /\ pc' = IF result = NoResult THEN "call" ELSE "done"
    /\ UNCHANGED <<grammar, pages, grid, cols, pg, i, year, opening_balance, running_balance,
                   transactions, args, output_format, banks, files, total_processed, written>>

\* config.py lines 196-203: format_dict
FormatDict(self, bank_name, owner_safe, account_number, start_date, end_date) ==
    { [key |-> <<"b", "a", "n", "k">>, value |-> bank_name],
      [key |-> <<"o", "w", "n", "e", "r">>, value |-> owner_safe],
      [key |-> <<"a", "c", "c", "o", "u", "n", "t">>, value |-> account_number],
      [key |-> <<"c", "u", "r", "r", "e", "n", "c", "y">>, value |-> self.currency],
      [key |-> <<"s", "t", "a", "r", "t", "_", "d", "a", "t", "e">>, value |-> FormatDate(self, start_date)],
      [key |-> <<"e", "n", "d", "_", "d", "a", "t", "e">>, value |-> FormatDate(self, end_date)] }

\* what str.format raises, as values
KeyError == <<"KeyError">>

IndexError == <<"IndexError">>

FormatErrors == {KeyError, IndexError, ValueError}

\* a piece of the output followed by the rest, or the error the rest raises
Then(piece, rest) == IF rest \in FormatErrors THEN rest ELSE piece \o rest

\* the replacement field named name: its value; KeyError when the name is no key;
\* IndexError when the field is positional ({} or {0}), there being no positional
\* argument; ValueError when the name holds a brace
FieldValue(name, d) ==
    IF \E x \in d : x.key = name THEN (CHOOSE x \in d : x.key = name).value
    ELSE IF Contains(<<"{">>, name) THEN ValueError
    ELSE IF AllDigits(name) THEN IndexError
    ELSE KeyError

\* template.format(**d) from offset k on: {{ and }} are braces, {name} is a replacement
\* field, a brace on its own raises ValueError; the first error from the left is raised.
\* Conversions (!r), format specifications (:>10), attributes and indices are not modelled
RECURSIVE FormatFrom(_, _, _)
FormatField(template, k, q, d) ==
    IF q = -1 THEN ValueError
    ELSE IF FieldValue(Slice(template, k + 1, q), d) \in FormatErrors
    THEN FieldValue(Slice(template, k + 1, q), d)
    ELSE Then(FieldValue(Slice(template, k + 1, q), d), FormatFrom(template, q + 1, d))

FormatFrom(template, k, d) ==
    IF k >= Len(template) THEN <<>>
    ELSE IF template[k + 1] = "{"
    THEN (IF k + 1 < Len(template) /\ template[k + 2] = "{"
          THEN Then(<<"{">>, FormatFrom(template, k + 2, d))
          ELSE FormatField(template, k, FindFrom(<<"}">>, template, k + 1), d))
    ELSE IF template[k + 1] = "}"
    THEN (IF k + 1 < Len(template) /\ template[k + 2] = "}"
          THEN Then(<<"}">>, FormatFrom(template, k + 2, d))
          ELSE ValueError)
    ELSE Then(<<template[k + 1]>>, FormatFrom(template, k + 1, d))

\* str.format(**d)
Format(template, d) == FormatFrom(template, 0, d)

\* config.py line 210: the default filename
DefaultFilename(self, bank_name, owner_safe, account_number, start_date, end_date) ==
    bank_name \o <<"-", "[">> \o owner_safe \o <<"]", "-">> \o account_number \o <<"-">>
        \o FormatDate(self, start_date) \o <<"-">> \o FormatDate(self, end_date) \o <<".", "c", "s", "v">>

\* config.py lines 205-210: the formatted template, the default filename on KeyError;
\* any other error is not caught
FilenameOr(formatted, fallback) == IF formatted = KeyError THEN fallback ELSE formatted

\* config.py lines 191-210: format_filename, given the sanitized owner name
FormatFilenameOf(self, a, owner_safe) ==
    FilenameOr(Format(self.filename_format,
                      FormatDict(self, a.bank_name, owner_safe, a.account_number,
                                 a.start_date, a.end_date)),
               DefaultFilename(self, a.bank_name, owner_safe, a.account_number,
                               a.start_date, a.end_date))

FormatFilenameResult(self, a) == FormatFilenameOf(self, a, Sanitize(a.owner_name))

\* config.py lines 170-210: format_filename returns
FormatFilename ==
    /\ pc = "call"
    /\ args.op = "format_filename"
    /\ \E name \in {FormatFilenameResult(output_format[1], args)} :
          /\ name \notin FormatErrors
          /\ result' = name
    /\ pc' = "done"
    /\ UNCHANGED <<grammar, pages, grid, cols, pg, i, year, opening_balance, running_balance,
                   transactions, args, output_format, banks, files, total_processed, written>>

\* config.py line 206: format_filename raises what str.format raises other than KeyError
FormatFilenameRaises ==
    /\ pc = "call"
    /\ args.op = "format_filename"
    /\ \E name \in {FormatFilenameResult(output_format[1], args)} :
          /\ name \in FormatErrors
          /\ result' = name
    /\ pc' = "raised"
    /\ UNCHANGED <<grammar, pages, grid, cols, pg, i, year, opening_balance, running_balance,
                   transactions, args, output_format, banks, files, total_processed, written>>

-----------------------------------------------------------------------------
(* The run over a folder: process_statements.py                            *)
(* A file of the folder is a record: its name, the text of its first page  *)
(* (or of its first rows), whether it opens, and what parse() of the       *)
(* parser does with it: "ok", "empty" (no transaction) or "raises".        *)

\* s.endswith(suffix)
EndsWith(s, suffix) == Len(suffix) <= Len(s) /\ OccursAt(suffix, s, Len(s) - Len(suffix))

\* any(x in s for x in subs)
ContainsAny(subs, s) == \E x \in subs : Contains(x, s)

\* any(s.endswith(x) for x in suffixes)
EndsWithAny(s, suffixes) == \E x \in suffixes : EndsWith(s, x)

\* process_statements.py line 29: the month patterns of parser selection
SelectionMonths ==
    { <<"_", "j", "u", "l", "_">>, <<"_", "a", "g", "u", "s", "t", "_">>, <<"_", "s", "e", "p", "t", "_">>, <<"_", "o", "k", "t", "_">>, <<"_", "n", "o", "v", "_">>, <<"_", "d", "e", "s", "_">>, <<"_", "j", "a", "n", "_">>, <<"_", "f", "e", "b", "_">>,
      <<"_", "m", "a", "r", "_">>, <<"_", "a", "p", "r", "_">>, <<"_", "m", "e", "i", "_">>, <<"_", "j", "u", "n", "_">> }

\* process_statements.py line 29: is_bca
IsBca(filename) == Contains(<<"b", "c", "a">>, filename) \/ ContainsAny(SelectionMonths, filename)

\* process_statements.py line 31: is_cimb
IsCimb(filename) == Contains(<<"c", "i", "m", "b">>, filename) \/ Contains(<<"c", "a", "s", "a">>, filename)

\* process_statements.py lines 20-43: the parser selected for a file name, "None" when
\* there is none
ParserFor(filename) ==
    IF EndsWith(filename, <<".", "p", "d", "f">>)
    THEN (IF IsBca(filename) /\ ~IsCimb(filename) THEN "BCAParser"
          ELSE IF IsCimb(filename) THEN "CIMBParser"
          ELSE "None")
    ELSE IF EndsWith(filename, <<".", "x", "l", "s", "x">>) \/ EndsWith(filename, <<".", "x", "l", "s">>)
    THEN (IF Contains(<<"e", "-", "s", "t", "a", "t", "e", "m", "e", "n", "t">>, filename) \/ Contains(<<"m", "a", "n", "d", "i", "r", "i">>, filename)
          THEN "MandiriParser"
          ELSE "None")
    ELSE "None"

\* process_statements.py lines 45-104: process_file writes the output of a file; with
\* no parser, no transaction or an exception of parse() it returns without writing
Writes(file) == ParserFor(Lower(file.name)) # "None" /\ file.parse = "ok"

\* process_statements.py lines 133-149: the validation criteria of each bank
Patterns ==
    { [ bank |-> "bca", extensions |-> {<<".", "p", "d", "f">>},
        filename_patterns |-> { <<"b", "c", "a">>, <<"_", "j", "u", "l", "_">>, <<"_", "a", "g", "u", "s", "t", "_">>, <<"_", "s", "e", "p", "t", "_">>, <<"_", "o", "k", "t", "_">>, <<"_", "n", "o", "v", "_">>,
                                <<"_", "d", "e", "s", "_">>, <<"_", "j", "a", "n", "_">>, <<"_", "f", "e", "b", "_">>, <<"_", "m", "a", "r", "_">>, <<"_", "a", "p", "r", "_">>, <<"_", "m", "e", "i", "_">>,
                                <<"_", "j", "u", "n", "_">>, <<"_", "m", "a", "r", "e", "t", "_">>, <<"_", "o", "k", "t", "o", "b", "e", "r", "_">>, <<"_", "d", "e", "s", "e", "m", "b", "e", "r", "_">> },
        keywords |-> { <<"b", "c", "a">>, <<"b", "a", "n", "k", " ", "c", "e", "n", "t", "r", "a", "l">>, <<"m", "u", "t", "a", "s", "i", " ", "r", "e", "k", "e", "n", "i", "n", "g">>, <<"s", "a", "l", "d", "o">>, <<"r", "e", "k", "e", "n", "i", "n", "g">> } ],
      [ bank |-> "mandiri", extensions |-> {<<".", "x", "l", "s", "x">>, <<".", "x", "l", "s">>},
        filename_patterns |-> { <<"m", "a", "n", "d", "i", "r", "i">>, <<"e", "-", "s", "t", "a", "t", "e", "m", "e", "n", "t">> },
        keywords |-> { <<"m", "a", "n", "d", "i", "r", "i">>, <<"b", "a", "n", "k", " ", "m", "a", "n", "d", "i", "r", "i">>, <<"l", "a", "p", "o", "r", "a", "n", " ", "t", "r", "a", "n", "s", "a", "k", "s", "i">>, <<"t", "a", "n", "g", "g", "a", "l">>,
                       <<"u", "r", "a", "i", "a", "n">> } ],
      [ bank |-> "cimb", extensions |-> {<<".", "p", "d", "f">>},
        filename_patterns |-> { <<"c", "i", "m", "b">>, <<"c", "a", "s", "a">> },
        keywords |-> { <<"c", "i", "m", "b">>, <<"c", "a", "s", "a">>, <<"b", "a", "n", "k", " ", "c", "i", "m", "b">>, <<"m", "u", "t", "a", "s", "i", " ", "r", "e", "k", "e", "n", "i", "n", "g">> } ] }

\* process_statements.py lines 176-217: the content check; a PDF that does not open is
\* skipped, a workbook that does not open is accepted on its name
IsValid(file, file_lower, keywords) ==
    IF EndsWith(file_lower, <<".", "p", "d", "f">>)
    THEN file.opens /\ ContainsAny(keywords, Lower(file.text))
    ELSE ~file.opens \/ ContainsAny(keywords, Lower(file.text))

\* process_statements.py lines 164-217: a file of the folder matches a bank
Matches(file, config) ==
    /\ ContainsAny(config.filename_patterns, Lower(file.name))
    /\ EndsWithAny(Lower(file.name), config.extensions)
    /\ IsValid(file, Lower(file.name), config.keywords)

\* process_statements.py lines 106-219: find_bank_files
FindBankFiles(folder, bank_name) ==
    IF \A p \in Patterns : p.bank # bank_name THEN <<>>
    ELSE SelectSeq(folder, LAMBDA file : Matches(file, CHOOSE p \in Patterns : p.bank = bank_name))

\* process_statements.py lines 273-278: the banks to search
BanksOf(bank_arg) == IF bank_arg = "all" THEN <<"bca", "mandiri", "cimb">> ELSE <<bank_arg>>

\* process_statements.py lines 251-280: main() up to the loop; the run ends with
\* exit(1) when the folder does not exist
Main ==
    /\ pc = "main"
    /\ banks' = IF args.exists THEN BanksOf(args.bank) ELSE <<>>
    /\ total_processed' = 0
    /\ pc' = IF args.exists THEN "bank" ELSE "exit1"
    /\ UNCHANGED <<grammar, pages, grid, cols, pg, i, year, opening_balance, running_balance,
                   transactions, args, output_format, result, files, written>>

\* process_statements.py lines 281-289: the next bank is searched; with no file found
\* the loop goes on to the bank after it
NextBank ==
    /\ pc = "bank"
    /\ banks # <<>>
    /\ files' = FindBankFiles(args.folder, Head(banks))
    /\ banks' = Tail(banks)
    /\ pc' = IF files' = <<>> THEN "bank" ELSE "file"
    /\ UNCHANGED <<grammar, pages, grid, cols, pg, i, year, opening_balance, running_balance,
                   transactions, args, output_format, result, total_processed, written>>

\* process_statements.py lines 291-294: process_file on the next file, which is
\* inspected (line 24) and, when it is parsed without anomaly, written (line 99); then
\* the counter
ProcessFile ==
    /\ pc = "file"
    /\ result' = Append(result, Head(files).name)
    /\ written' = IF Writes(Head(files)) THEN Append(written, Head(files).name) ELSE written
    /\ total_processed' = total_processed + 1
    /\ files' = Tail(files)
    /\ pc' = IF files' = <<>> THEN "bank" ELSE "file"
    /\ UNCHANGED <<grammar, pages, grid, cols, pg, i, year, opening_balance, running_balance,
                   transactions, args, output_format, banks>>

\* process_statements.py lines 296-300: the end of the run: exit(1) when no file was
\* processed, else the message "Successfully processed N file(s)" with the counter
Finish ==
    /\ pc = "bank"
    /\ banks = <<>>
    /\ pc' = IF total_processed = 0 THEN "exit1" ELSE "exit0"
    /\ UNCHANGED <<grammar, pages, grid, cols, pg, i, year, opening_balance, running_balance,
                   transactions, run>>

(* Statements                                                              *)

\* the sequences over S of length at most n
SeqUpTo(S, n) == UNION {[1..k -> S] : k \in 0..n}

\* the most lines (rows) a statement body holds
MaxLines == 3

\* "01/01 SALDO AWAL 100.00"
hdrSaldoAwal ==
    <<"0", "1", "/", "0", "1", " ", "S", "A", "L", "D", "O", " ", "A", "W", "A", "L", " ", "1", "0", "0", ".", "0", "0">>

\* "SALDO AWAL : 0.00"
hdrSaldoNol ==
    <<"S", "A", "L", "D", "O", " ", "A", "W", "A", "L", " ", ":", " ", "0", ".", "0", "0">>

\* "PERIODE : FEBRUARI 2024"
hdrPeriode ==
    <<"P", "E", "R", "I", "O", "D", "E", " ", ":", " ", "F", "E", "B", "R", "U", "A", "R", "I", " ", "2", "0", "2", "4">>

\* "01/02 TRF 100.00 DB"
lnDebit ==
    <<"0", "1", "/", "0", "2", " ", "T", "R", "F", " ", "1", "0", "0", ".", "0", "0", " ", "D", "B">>

\* "31/02 ADM 10.00 DB"
lnBadDate ==
    <<"3", "1", "/", "0", "2", " ", "A", "D", "M", " ", "1", "0", ".", "0", "0", " ", "D", "B">>

\* "03/02 BUNGA"
lnNoAmount ==
    <<"0", "3", "/", "0", "2", " ", "B", "U", "N", "G", "A">>

\* "04/02 5.00"
lnNoDesc ==
    <<"0", "4", "/", "0", "2", " ", "5", ".", "0", "0">>

\* "01 Jan 2025 OVERBOOKING REF123 -100,000.00 400,000.00"
cimbExample ==
    <<"0", "1", " ", "J", "a", "n", " ", "2", "0", "2", "5", " ", "O", "V", "E", "R", "B", "O", "O", "K", "I", "N", "G", " ", "R", "E", "F", "1", "2", "3", " ", "-", "1", "0", "0", ",", "0", "0", "0", ".", "0", "0", " ", "4", "0", "0", ",", "0", "0", "0", ".", "0", "0">>

\* "31 Feb 2025 X 1.00"
cimbBadDate ==
    <<"3", "1", " ", "F", "e", "b", " ", "2", "0", "2", "5", " ", "X", " ", "1", ".", "0", "0">>

\* "04 Apr 2025 Y"
cimbNoAmount ==
    <<"0", "4", " ", "A", "p", "r", " ", "2", "0", "2", "5", " ", "Y">>

\* "14 Jan 2025 1.00"
cimbNoDesc ==
    <<"1", "4", " ", "J", "a", "n", " ", "2", "0", "2", "5", " ", "1", ".", "0", "0">>

\* "SALDO AWAL 100.00"
cimbSaldoAwal ==
    <<"S", "A", "L", "D", "O", " ", "A", "W", "A", "L", " ", "1", "0", "0", ".", "0", "0">>

\* "02/02 TRF 30.00 DB 70.00"
lnDebitBal ==
    <<"0", "2", "/", "0", "2", " ", "T", "R", "F", " ", "3", "0", ".", "0", "0", " ", "D", "B", " ", "7", "0", ".", "0", "0">>

\* "03/02 SETOR 30.00 100.00"
lnCreditBal ==
    <<"0", "3", "/", "0", "2", " ", "S", "E", "T", "O", "R", " ", "3", "0", ".", "0", "0", " ", "1", "0", "0", ".", "0", "0">>

\* "04/02 TARIK 100.00 DB 0.00"
lnDebitZero ==
    <<"0", "4", "/", "0", "2", " ", "T", "A", "R", "I", "K", " ", "1", "0", "0", ".", "0", "0", " ", "D", "B", " ", "0", ".", "0", "0">>

\* "02/02 TRF 30.00 DB"
lnDebitBlank ==
    <<"0", "2", "/", "0", "2", " ", "T", "R", "F", " ", "3", "0", ".", "0", "0", " ", "D", "B">>

\* "03/02 SETOR 30.00"
lnCreditBlank ==
    <<"0", "3", "/", "0", "2", " ", "S", "E", "T", "O", "R", " ", "3", "0", ".", "0", "0">>

\* "PERIODE : MARET 2025"
hdrPeriode25 ==
    <<"P", "E", "R", "I", "O", "D", "E", " ", ":", " ", "M", "A", "R", "E", "T", " ", "2", "0", "2", "5">>

\* "15 Mar 2025 SETOR"
mdrDate ==
    <<"1", "5", " ", "M", "a", "r", " ", "2", "0", "2", "5", " ", "S", "E", "T", "O", "R">>

\* "16 Mar 2025"
mdrDateOnly ==
    <<"1", "6", " ", "M", "a", "r", " ", "2", "0", "2", "5">>

\* "31 Feb 2025 X"
mdrBadDate ==
    <<"3", "1", " ", "F", "e", "b", " ", "2", "0", "2", "5", " ", "X">>

\* "-200,00 9.800,00"
mdrAmounts ==
    <<"-", "2", "0", "0", ",", "0", "0", " ", "9", ".", "8", "0", "0", ",", "0", "0">>

\* "0,00 5,00"
mdrZero ==
    <<"0", ",", "0", "0", " ", "5", ",", "0", "0">>

\* "-5,00 0,00"
mdrNoBalance ==
    <<"-", "5", ",", "0", "0", " ", "0", ",", "0", "0">>

\* Tanggal | Uraian | Debet | Kredit | Saldo
rowHeader == <<Str(<<"T", "a", "n", "g", "g", "a", "l">>), Str(<<"U", "r", "a", "i", "a", "n">>), Str(<<"D", "e", "b", "e", "t">>), Str(<<"K", "r", "e", "d", "i", "t">>), Str(<<"S", "a", "l", "d", "o">>)>>

\* 2025-03-01 (a date cell) | SETOR | | 50 | 150
rowCredit == <<DateCell(2025, 3, 1), Str(<<"S", "E", "T", "O", "R">>), NaN, Num(50), Num(150)>>

\* 31/02/2025 | ADM | 10 | | 140
rowBadDate == <<Str(<<"3", "1", "/", "0", "2", "/", "2", "0", "2", "5">>), Str(<<"A", "D", "M">>), Num(10), NaN, Num(140)>>

\* 05/03/2025 | | -5 | -3 |
rowNegative == <<Str(<<"0", "5", "/", "0", "3", "/", "2", "0", "2", "5">>), NaN, Num(-5), Num(-3), NaN>>

\* 04/03/2025 | NOL | 0 | 0 | 140,00
rowZero == <<Str(<<"0", "4", "/", "0", "3", "/", "2", "0", "2", "5">>), Str(<<"N", "O", "L">>), Num(0), Num(0), Str(<<"1", "4", "0", ",", "0", "0">>)>>

HeadersA == {<<>>, <<hdrSaldoAwal>>}

LinesA == {lnDebit, lnBadDate, lnNoAmount, lnNoDesc}

LinesB == {cimbExample, cimbBadDate, cimbNoAmount, cimbNoDesc, cimbSaldoAwal}

LinesC == {mdrDate, mdrDateOnly, mdrBadDate, mdrAmounts, mdrZero, mdrNoBalance}

RowsX == {rowHeader, rowCredit, rowBadDate, rowNegative, rowZero}

\* the state before parse() runs on a statement
Start ==
    /\ cols = NoCols
    /\ pc = "header"
    /\ pg = 1
    /\ i = 0
    /\ year = 0
    /\ opening_balance = 0
    /\ running_balance = 0
    /\ transactions = <<>>
    /\ NoRun

\* a PDF statement of two pages: the header and the first lines on page 1, the rest on page 2
InitPdf(g, headers, lines) ==
    /\ grammar = g
    /\ \E hdr \in headers, body \in SeqUpTo(lines, MaxLines) :
         \E cut \in 0..Len(body) :
            pages = <<hdr \o SubSeq(body, 1, cut), SubSeq(body, cut + 1, Len(body))>>
    /\ grid = <<>>
    /\ Start

\* a workbook sheet
InitX ==
    /\ grammar = "X"
    /\ pages = <<>>
    /\ grid \in SeqUpTo(RowsX, MaxLines)
    /\ Start

Init ==
    \/ InitPdf("A", HeadersA, LinesA)
    \/ InitPdf("B", {<<>>}, LinesB)
    \/ InitPdf("C", {<<>>}, LinesC)
    \/ InitX

Next ==
    \/ NextA
    \/ NextB
    \/ NextC
    \/ NextX

Spec == Init /\ [][Next]_vars

-----------------------------------------------------------------------------
(* Grammar A statements with and without balance tokens                    *)

HeadersR == {<<>>, <<hdrSaldoAwal>>, <<hdrSaldoNol>>}

LinesR == {lnDebitBal, lnCreditBal, lnDebitZero, lnDebitBlank, lnCreditBlank}

InitA == InitPdf("A", HeadersR, LinesR)

SpecA == InitA /\ [][NextA]_vars

-----------------------------------------------------------------------------
(* Grammar A statements of one body line DD/MM <text> <amt> <marker> <bal> *)

\* the parts a body line is composed of, each with the value it stands for
Dates1 ==
    { [s |-> <<"0", "1", "/", "0", "2">>, d |-> 1, m |-> 2], [s |-> <<"2", "9", "/", "0", "2">>, d |-> 29, m |-> 2],
      [s |-> <<"3", "1", "/", "1", "2">>, d |-> 31, m |-> 12] }

Texts1 ==
    { [s |-> <<"T", "R", "A", "N", "S", "F", "E", "R", " ", "D", "A", "N", "A">>, desc |-> <<"T", "R", "A", "N", "S", "F", "E", "R", " ", "D", "A", "N", "A">>, banner |-> FALSE],
      [s |-> <<"T", "R", "F", " ", " ", " ", "E", "-", "B", "A", "N", "K", "I", "N", "G", "/", "0", "1">>, desc |-> <<"T", "R", "F", " ", "E", "-", "B", "A", "N", "K", "I", "N", "G", "/", "0", "1">>, banner |-> FALSE],
      [s |-> <<"K", "O", "R", "E", "K", "S", "I", " ", "S", "A", "L", "D", "O", " ", "A", "W", "A", "L">>, desc |-> <<"K", "O", "R", "E", "K", "S", "I", " ", "S", "A", "L", "D", "O", " ", "A", "W", "A", "L">>, banner |-> TRUE] }

Amounts1 ==
    { [s |-> <<"1", "0", "6", ",", "1", "6", "1", ".", "0", "0">>, v |-> 10616100], [s |-> <<"0", ".", "5", "0">>, v |-> 50] }

Markers1 ==
    { [s |-> <<" ", "D", "B", " ">>, near |-> TRUE, far |-> FALSE],
      [s |-> <<" ">>, near |-> FALSE, far |-> FALSE],
      [s |-> <<" ", " ", " ", " ", " ", " ", "D", "B", " ">>, near |-> FALSE, far |-> TRUE] }

Balances1 ==
    { [s |-> <<"5", "0", "0", ",", "0", "0", "0", ".", "0", "0">>, v |-> 50000000], [s |-> <<"0", ".", "0", "0">>, v |-> 0] }

Headers1 ==
    { [lines |-> <<hdrPeriode>>, y |-> 2024, opening |-> 0],
      [lines |-> <<hdrPeriode25>>, y |-> 2025, opening |-> 0],
      [lines |-> <<hdrSaldoAwal, hdrPeriode>>, y |-> 2024, opening |-> 10000] }

Cases1 ==
    [hdr : Headers1, date : Dates1, text : Texts1, amt : Amounts1, marker : Markers1,
     bal : Balances1]

\* the body line of a case
Line1(c) == c.date.s \o <<" ">> \o c.text.s \o <<" ">> \o c.amt.s \o c.marker.s \o c.bal.s

\* the statement of a case: the header lines and the body line on one page
Pages1(c) == <<c.hdr.lines \o <<Line1(c)>>, <<>>>>

InitA1 ==
    /\ grammar = "A"
    /\ \E c \in Cases1 : pages = Pages1(c)
    /\ grid = <<>>
    /\ Start

SpecA1 == InitA1 /\ [][NextA]_vars

-----------------------------------------------------------------------------
(* Grammar A transactions of several numeric tokens                        *)

\* the most numeric tokens of a transaction
MaxTokens == 3

\* a token with what follows it, and whether DB or CR lies within the 5 characters
\* after the token
Item12(s, v, mark, near) == [s |-> s \o mark, v |-> v, near |-> near]

Items12 ==
    { Item12(<<"1", "0", "6", ",", "1", "6", "1", ".", "0", "0">>, 10616100, <<" ", "D", "B", " ">>, TRUE),
      Item12(<<"1", "0", "6", ",", "1", "6", "1", ".", "0", "0">>, 10616100, <<" ">>, FALSE),
      Item12(<<"5", "0", "0", ",", "0", "0", "0", ".", "0", "0">>, 50000000, <<" ">>, FALSE),
      Item12(<<"5", "0", "0", ",", "0", "0", "0", ".", "0", "0">>, 50000000, <<" ", "C", "R", " ">>, TRUE),
      Item12(<<"0", ".", "5", "0">>, 50, <<" ", " ", " ", " ", " ", " ", "C", "R", " ">>, FALSE),
      Item12(<<"0", ".", "5", "0">>, 50, <<" ", "D", "B", " ">>, TRUE) }

\* statement headers without and with an opening balance
Headers12 == {h \in Headers1 : h.y = 2024}

\* the tokens and what follows them, written one after the other
RECURSIVE Written12(_)
Written12(items) ==
    IF items = <<>> THEN <<>>
    ELSE Written12(SubSeq(items, 1, Len(items) - 1))
             \o items[Len(items)].s

\* the body lines of a transaction with its tokens on the start line, or with its last
\* token on a line of its own
Lines12(items, split) ==
    IF split /\ Len(items) > 1
    THEN << <<"0", "1", "/", "0", "2", " ", "T", "R", "A", "N", "S", "F", "E", "R", " ", "D", "A", "N", "A", " ">> \o Written12(SubSeq(items, 1, Len(items) - 1)),
            Written12(<<items[Len(items)]>>) >>
    ELSE << <<"0", "1", "/", "0", "2", " ", "T", "R", "A", "N", "S", "F", "E", "R", " ", "D", "A", "N", "A", " ">> \o Written12(items) >>

Cases12 ==
    [hdr : Headers12, items : SeqUpTo(Items12, MaxTokens) \ {<<>>}, split : BOOLEAN]

Pages12(c) == <<c.hdr.lines \o Lines12(c.items, c.split), <<>>>>

InitA2 ==
    /\ grammar = "A"
    /\ \E c \in Cases12 : pages = Pages12(c)
    /\ grid = <<>>
    /\ Start

SpecA2 == InitA2 /\ [][NextA]_vars

-----------------------------------------------------------------------------
(* Grammar A transactions followed by further lines                        *)

\* the lines that follow a start line, each with what it is: text of the transaction,
\* a new date-start line, a closing banner, a noise header
Lines13 ==
    { [s |-> <<"K", "E", " ", "R", "E", "K", "E", "N", "I", "N", "G", " ", "1", "2", "3">>, kind |-> "text"],
      [s |-> <<"0", "2", "/", "0", "2", " ", "S", "E", "T", "O", "R", " ", "3", "0", ".", "0", "0">>, kind |-> "start"],
      [s |-> <<"S", "A", "L", "D", "O", " ", "A", "K", "H", "I", "R", " ", ":", " ", "7", "0", ".", "0", "0">>, kind |-> "banner"],
      [s |-> <<"B", "e", "r", "s", "a", "m", "b", "u", "n", "g", " ", "k", "e", " ", "h", "a", "l", "a", "m", "a", "n", " ", "b", "e", "r", "i", "k", "u", "t">>, kind |-> "banner"],
      [s |-> <<"B", "E", "R", "S", "A", "M", "B", "U", "N", "G", " ", "K", "E", " ", "H", "A", "L", "A", "M", "A", "N", " ", "B", "E", "R", "I", "K", "U", "T">>, kind |-> "banner"],
      [s |-> <<"T", "A", "N", "G", "G", "A", "L", " ", "K", "E", "T", "E", "R", "A", "N", "G", "A", "N", " ", "C", "B", "G">>, kind |-> "noise"] }

InitA3 ==
    /\ grammar = "A"
    /\ \E after \in SeqUpTo({x.s : x \in Lines13}, MaxLines) :
          pages = <<<<hdrPeriode, lnDebit>> \o after, <<>>>>
    /\ grid = <<>>
    /\ Start

SpecA3 == InitA3 /\ [][NextA]_vars

-----------------------------------------------------------------------------
(* Grammar B statements of one start line with signed tokens               *)

Tokens2 ==
    { [s |-> <<"-", "1", "0", "0", ",", "0", "0", "0", ".", "0", "0">>, v |-> 0 - 10000000], [s |-> <<"4", "0", "0", ",", "0", "0", "0", ".", "0", "0">>, v |-> 40000000],
      [s |-> <<"-", "5", ".", "0", "0">>, v |-> 0 - 500], [s |-> <<"2", "5", "0", ".", "0", "0">>, v |-> 25000] }

Texts2 == {<<"O", "V", "E", "R", "B", "O", "O", "K", "I", "N", "G", " ", "R", "E", "F", "1", "2", "3">>, <<"S", "E", "T", "O", "R", "A", "N", " ", "T", "U", "N", "A", "I">>}

\* the start line of a text and its tokens
RECURSIVE Line2(_, _)
Line2(text, toks) ==
    IF toks = <<>> THEN <<"0", "1", " ", "J", "a", "n", " ", "2", "0", "2", "5", " ">> \o text
    ELSE Line2(text, SubSeq(toks, 1, Len(toks) - 1)) \o <<" ">> \o toks[Len(toks)].s

InitB ==
    /\ grammar = "B"
    /\ \E hdr \in {<<>>, <<cimbSaldoAwal>>}, text \in Texts2,
          toks \in SeqUpTo(Tokens2, MaxTokens) :
          pages = <<hdr \o <<Line2(text, toks)>>, <<>>>>
    /\ grid = <<>>
    /\ Start

SpecB == InitB /\ [][NextB]_vars

-----------------------------------------------------------------------------
(* Grammar C statements of one date line and one line of decimal-comma     *)
(* tokens                                                                  *)

Tokens3 ==
    { [s |-> <<"1", ".", "5", "0", "0", ",", "0", "0">>, v |-> 150000], [s |-> <<"1", "0", ".", "0", "0", "0", ",", "0", "0">>, v |-> 1000000],
      [s |-> <<"-", "2", "0", "0", ",", "0", "0">>, v |-> 0 - 20000] }

\* what stands before the tokens on their line
Prefixes3 == {<<>>, <<"B", "I", "A", "Y", "A", " ", "A", "D", "M", " ">>}

\* the line of a prefix and its tokens
RECURSIVE Line3(_, _)
Line3(prefix, toks) ==
    IF Len(toks) = 1 THEN prefix \o toks[1].s
    ELSE Line3(prefix, SubSeq(toks, 1, Len(toks) - 1)) \o <<" ">> \o toks[Len(toks)].s

InitC ==
    /\ grammar = "C"
    /\ \E lead \in {<<>>, <<<<"T", "R", "A", "N", "S", "F", "E", "R", " ", "M", "A", "S", "U", "K">>>>}, date \in {<<"1", "5", " ", "M", "a", "r", " ", "2", "0", "2", "5">>, <<"3", "1", " ", "F", "e", "b", " ", "2", "0", "2", "5">>},
          mid \in {<<>>, <<<<"K", "E", " ", "R", "E", "K", "E", "N", "I", "N", "G">>>>}, prefix \in Prefixes3,
          toks \in SeqUpTo(Tokens3, MaxTokens) \ {<<>>} :
          pages = <<lead \o <<date>> \o mid \o <<Line3(prefix, toks)>>, <<>>>>
    /\ grid = <<>>
    /\ Start

SpecC == InitC /\ [][NextC]_vars

-----------------------------------------------------------------------------
(* Grammar C transactions followed by a timestamp line and a reference     *)

\* the line after the amount line: whether it starts with HH:MM:SS, whether WIB follows
\* the time, and the text that trails
Stamps14 ==
    { [s |-> <<"1", "0", ":", "1", "5", ":", "3", "0", " ", "W", "I", "B", " ", "R", "E", "F", "1", "2", "3">>, ts |-> TRUE, wib |-> TRUE, trail |-> <<"R", "E", "F", "1", "2", "3">>, date |-> FALSE],
      [s |-> <<"1", "0", ":", "1", "5", ":", "3", "0", " ", "W", "I", "B", " ", "1", "6", " ", "M", "a", "r", " ", "2", "0", "2", "5">>, ts |-> TRUE, wib |-> TRUE, trail |-> <<"1", "6", " ", "M", "a", "r", " ", "2", "0", "2", "5">>,
       date |-> TRUE],
      [s |-> <<"1", "0", ":", "1", "5", ":", "3", "0", " ", "W", "I", "B">>, ts |-> TRUE, wib |-> TRUE, trail |-> <<>>, date |-> FALSE],
      [s |-> <<"1", "0", ":", "1", "5", ":", "3", "0">>, ts |-> TRUE, wib |-> FALSE, trail |-> <<>>, date |-> FALSE],
      [s |-> <<"1", "0", ":", "1", "5", ":", "3", "0", " ", "R", "E", "F", "1", "2", "3">>, ts |-> TRUE, wib |-> FALSE, trail |-> <<"R", "E", "F", "1", "2", "3">>, date |-> FALSE],
      [s |-> <<"K", "E", "T", "E", "R", "A", "N", "G", "A", "N", " ", "L", "A", "I", "N">>, ts |-> FALSE, wib |-> FALSE, trail |-> <<>>, date |-> FALSE],
      [s |-> <<"1", "6", " ", "M", "a", "r", " ", "2", "0", "2", "5">>, ts |-> FALSE, wib |-> FALSE, trail |-> <<>>, date |-> TRUE] }

\* the line after that one, with what it is: a reference, a date-start line, a
\* structural marker, the label of the next transaction
Refs14 ==
    { [s |-> <<"R", "E", "F", "1", "2", "3">>, kind |-> "ref"],
      [s |-> <<"1", "6", " ", "M", "a", "r", " ", "2", "0", "2", "5">>, kind |-> "date"],
      [s |-> <<"3", "1", " ", "F", "e", "b", " ", "2", "0", "2", "5", " ", "X">>, kind |-> "date"],
      [s |-> <<"P", "T", " ", "B", "a", "n", "k", " ", "M", "a", "n", "d", "i", "r", "i">>, kind |-> "marker"],
      [s |-> <<"e", "-", "S", "t", "a", "t", "e", "m", "e", "n", "t", " ", "P", "a", "g", "e">>, kind |-> "marker"],
      [s |-> <<"N", "o", " ", "D", "a", "t", "e", " ", "R", "e", "m", "a", "r", "k", "s">>, kind |-> "marker"],
      [s |-> <<"T", "r", "a", "n", "s", "f", "e", "r", " ", "k", "e", " ", "B", "C", "A">>, kind |-> "label"],
      [s |-> <<"P", "e", "m", "b", "a", "y", "a", "r", "a", "n", " ", "P", "L", "N">>, kind |-> "label"] }

AmountLines14 == {<<"1", ".", "5", "0", "0", ",", "0", "0", " ", "1", "0", ".", "0", "0", "0", ",", "0", "0">>, <<"-", "2", "0", "0", ",", "0", "0", " ", "1", "0", ".", "0", "0", "0", ",", "0", "0">>}

Tails14 == {<<>>} \cup {<<x.s>> : x \in Stamps14} \cup {<<x.s, y.s>> : x \in Stamps14, y \in Refs14}

InitC2 ==
    /\ grammar = "C"
    /\ \E amt \in AmountLines14, tail \in Tails14 :
          pages = <<<<<<"1", "5", " ", "M", "a", "r", " ", "2", "0", "2", "5">>, <<"B", "I", "A", "Y", "A", " ", "A", "D", "M">>, amt>> \o tail, <<>>>>
    /\ grid = <<>>
    /\ Start

SpecC2 == InitC2 /\ [][NextC]_vars

-----------------------------------------------------------------------------
(* Grammar C transactions with lines before the date line                  *)

\* the lines before a date line: the text once stripped, whether it is noise (starts
\* with a digit, or is the bare WIB marker), whether it has 50 characters or more,
\* whether it is the column-header banner
Befores15 ==
    { [s |-> <<"T", "R", "A", "N", "S", "F", "E", "R", " ", "M", "A", "S", "U", "K">>, text |-> <<"T", "R", "A", "N", "S", "F", "E", "R", " ", "M", "A", "S", "U", "K">>, noise |-> FALSE, long |-> FALSE,
       header |-> FALSE],
      [s |-> <<>>, text |-> <<>>, noise |-> FALSE, long |-> FALSE, header |-> FALSE],
      [s |-> <<" ", " ">>, text |-> <<>>, noise |-> FALSE, long |-> FALSE, header |-> FALSE],
      [s |-> <<"W", "I", "B">>, text |-> <<"W", "I", "B">>, noise |-> TRUE, long |-> FALSE, header |-> FALSE],
      [s |-> <<"3", "1", " ", "F", "e", "b", " ", "2", "0", "2", "5", " ", "X">>, text |-> <<"3", "1", " ", "F", "e", "b", " ", "2", "0", "2", "5", " ", "X">>, noise |-> TRUE, long |-> FALSE,
       header |-> FALSE],
      [s |-> <<"1", "0", ":", "1", "5", ":", "3", "0", " ", "W", "I", "B", " ", "R", "E", "F", "1", "2", "3">>, text |-> <<"1", "0", ":", "1", "5", ":", "3", "0", " ", "W", "I", "B", " ", "R", "E", "F", "1", "2", "3">>, noise |-> TRUE,
       long |-> FALSE, header |-> FALSE],
      [s |-> <<"P", "E", "M", "B", "A", "Y", "A", "R", "A", "N", " ", "T", "A", "G", "I", "H", "A", "N", " ", "L", "I", "S", "T", "R", "I", "K", " ", "P", "A", "S", "C", "A", "B", "A", "Y", "A", "R", " ", "P", "E", "R", "I", "O", "D", "E", " ", "M", "A", "R">>, text |-> <<"P", "E", "M", "B", "A", "Y", "A", "R", "A", "N", " ", "T", "A", "G", "I", "H", "A", "N", " ", "L", "I", "S", "T", "R", "I", "K", " ", "P", "A", "S", "C", "A", "B", "A", "Y", "A", "R", " ", "P", "E", "R", "I", "O", "D", "E", " ", "M", "A", "R">>, noise |-> FALSE, long |-> FALSE, header |-> FALSE],
      [s |-> <<"P", "E", "M", "B", "A", "Y", "A", "R", "A", "N", " ", "T", "A", "G", "I", "H", "A", "N", " ", "L", "I", "S", "T", "R", "I", "K", " ", "P", "A", "S", "C", "A", "B", "A", "Y", "A", "R", " ", "P", "E", "R", "I", "O", "D", "E", " ", "M", "A", "R", "E">>, text |-> <<"P", "E", "M", "B", "A", "Y", "A", "R", "A", "N", " ", "T", "A", "G", "I", "H", "A", "N", " ", "L", "I", "S", "T", "R", "I", "K", " ", "P", "A", "S", "C", "A", "B", "A", "Y", "A", "R", " ", "P", "E", "R", "I", "O", "D", "E", " ", "M", "A", "R", "E">>, noise |-> FALSE, long |-> TRUE, header |-> FALSE],
      [s |-> <<"N", "o", " ", "D", "a", "t", "e", " ", "R", "e", "m", "a", "r", "k", "s", " ", "A", "m", "o", "u", "n", "t", " ", "(", "I", "D", "R", ")", " ", "B", "a", "l", "a", "n", "c", "e", " ", "(", "I", "D", "R", ")">>,
       text |-> <<"N", "o", " ", "D", "a", "t", "e", " ", "R", "e", "m", "a", "r", "k", "s", " ", "A", "m", "o", "u", "n", "t", " ", "(", "I", "D", "R", ")", " ", "B", "a", "l", "a", "n", "c", "e", " ", "(", "I", "D", "R", ")">>, noise |-> FALSE,
       long |-> FALSE, header |-> TRUE] }

\* the most lines before the date line
MaxBefore == 2

\* what follows the date on its line
AfterDates15 == {<<>>, <<" ", "S", "E", "T", "O", "R", " ", "T", "U", "N", "A", "I">>}

InitC3 ==
    /\ grammar = "C"
    /\ \E before \in SeqUpTo({x.s : x \in Befores15}, MaxBefore), after \in AfterDates15,
          mid \in {<<>>, <<<<"K", "E", " ", "R", "E", "K", "E", "N", "I", "N", "G">>>>} :
          pages = <<before \o <<<<"1", "5", " ", "M", "a", "r", " ", "2", "0", "2", "5">> \o after>> \o mid \o <<<<"1", ".", "5", "0", "0", ",", "0", "0", " ", "1", "0", ".", "0", "0", "0", ",", "0", "0">>>>,
                    <<>>>>
    /\ grid = <<>>
    /\ Start

SpecC3 == InitC3 /\ [][NextC]_vars

-----------------------------------------------------------------------------
(* Grammar C pages of date lines, text, banners and amount lines           *)

\* the lines of a page, each with what it is; a date line says whether text follows the
\* date, an amount line says its amount in hundredths; a date line of no calendar date
\* ends a transaction and starts none
Lines16 ==
    { [s |-> <<"3", "1", " ", "F", "e", "b", " ", "2", "0", "2", "5", " ", "X">>, kind |-> "nodate", text |-> TRUE, v |-> 0] } \cup
    { [s |-> <<"1", "5", " ", "M", "a", "r", " ", "2", "0", "2", "5", " ", "S", "E", "T", "O", "R">>, kind |-> "date", text |-> TRUE, v |-> 0],
      [s |-> <<"1", "7", " ", "M", "a", "r", " ", "2", "0", "2", "5">>, kind |-> "date", text |-> FALSE, v |-> 0],
      [s |-> <<"K", "E", " ", "R", "E", "K", "E", "N", "I", "N", "G">>, kind |-> "text", text |-> TRUE, v |-> 0],
      [s |-> <<"P", "T", " ", "B", "a", "n", "k", " ", "M", "a", "n", "d", "i", "r", "i">>, kind |-> "banner", text |-> TRUE, v |-> 0],
      [s |-> <<"N", "o", " ", "D", "a", "t", "e", " ", "R", "e", "m", "a", "r", "k", "s">>, kind |-> "banner", text |-> TRUE, v |-> 0],
      [s |-> <<"e", "-", "S", "t", "a", "t", "e", "m", "e", "n", "t", " ", "P", "a", "g", "e">>, kind |-> "banner", text |-> TRUE, v |-> 0],
      [s |-> <<"1", ".", "5", "0", "0", ",", "0", "0", " ", "1", "0", ".", "0", "0", "0", ",", "0", "0">>, kind |-> "amount", text |-> FALSE, v |-> 150000],
      [s |-> <<"0", ",", "0", "0", " ", "1", "0", ".", "0", "0", "0", ",", "0", "0">>, kind |-> "amount", text |-> FALSE, v |-> 0] }

InitC4 ==
    /\ grammar = "C"
    /\ \E first \in {x \in Lines16 : x.kind \in {"date", "nodate"}},
          rest \in SeqUpTo({x.s : x \in Lines16}, MaxLines) :
          pages = <<<<first.s>> \o rest, <<>>>>
    /\ grid = <<>>
    /\ Start

SpecC4 == InitC4 /\ [][NextC]_vars

-----------------------------------------------------------------------------
(* Grammar B transactions followed by further lines                        *)

Lines17 ==
    { <<"K", "E", " ", "R", "E", "K", "E", "N", "I", "N", "G", " ", "1", "2", "3">>, <<"0", "2", " ", "J", "a", "n", " ", "2", "0", "2", "5", " ", "S", "E", "T", "O", "R", " ", "5", ".", "0", "0">>, <<"S", "a", "l", "d", "o", " ", "A", "k", "h", "i", "r", " ", "1", "0", "0", ".", "0", "0">>, <<"P", "a", "g", "e", " ", "1", " ", "o", "f", " ", "2">>,
      <<"3", "1", " ", "F", "e", "b", " ", "2", "0", "2", "5", " ", "X", " ", "1", ".", "0", "0">> }

InitB3 ==
    /\ grammar = "B"
    /\ \E after \in SeqUpTo(Lines17, MaxLines) : pages = <<<<cimbExample>> \o after, <<>>>>
    /\ grid = <<>>
    /\ Start

-----------------------------------------------------------------------------
(* The line scanners of the three PDF grammars                             *)

InitT ==
    \/ InitPdf("A", HeadersA, LinesA)
    \/ InitPdf("B", {<<>>}, LinesB)
    \/ InitPdf("C", {<<>>}, LinesC)
    \/ InitA3
    \/ InitB3
    \/ InitC2
    \/ InitPdf("C", {<<>>}, {mdrDate, mdrAmounts, <<"K", "E", " ", "R", "E", "K", "E", "N", "I", "N", "G">>, <<"P", "T", " ", "B", "a", "n", "k", " ", "M", "a", "n", "d", "i", "r", "i">>})

NextT ==
    \/ NextA
    \/ NextB
    \/ NextC

SpecT == InitT /\ [][NextT]_vars

\* the position of the scanner
position == <<pc, pg, i>>

\* the scanner moves: parse() is running and its position changes
Advance ==
    /\ pc \in {"header", "scan"}
    /\ pc' \in {"scan", "done", "raised"}
    /\ pg' \in {pg, pg + 1}
    /\ \E k \in 1..Len(pages) : i' \in 0..Len(pages[k])

\* parse() runs its loops without waiting for anything: while it is running the scanner
\* moves
SpecTFair == SpecT /\ WF_position(Advance)

-----------------------------------------------------------------------------
(* Pages of two transactions whose lines each carry a word of their own    *)

\* Grammar A: a start line, a line after it, a second start line, a line after it
InitA4 ==
    /\ grammar = "A"
    /\ \E x1 \in {<<>>, <<<<"K", "E", " ", "R", "E", "K", "E", "N", "I", "N", "G", " ", "1", "2", "3">>>>, <<<<"T", "A", "N", "G", "G", "A", "L", " ", "K", "E", "T", "E", "R", "A", "N", "G", "A", "N", " ", "C", "B", "G">>>>,
                  <<<<"S", "A", "L", "D", "O", " ", "A", "K", "H", "I", "R", " ", ":", " ", "7", "0", ".", "0", "0">>>>},
          x2 \in {<<>>, <<<<"D", "A", "R", "I", " ", "K", "A", "S">>>>} :
          pages = <<<<hdrPeriode, lnDebit>> \o x1 \o <<<<"0", "2", "/", "0", "2", " ", "S", "E", "T", "O", "R", " ", "3", "0", ".", "0", "0">>>> \o x2, <<>>>>
    /\ grid = <<>>
    /\ Start

\* Grammar B: the same
InitB4 ==
    /\ grammar = "B"
    /\ \E x1 \in {<<>>, <<<<"K", "E", " ", "R", "E", "K", "E", "N", "I", "N", "G", " ", "1", "2", "3">>>>, <<<<"P", "a", "g", "e", " ", "1", " ", "o", "f", " ", "2">>>>, <<<<"S", "a", "l", "d", "o", " ", "A", "k", "h", "i", "r", " ", "1", "0", "0", ".", "0", "0">>>>},
          x2 \in {<<>>, <<<<"D", "A", "R", "I", " ", "K", "A", "S">>>>, <<cimbBadDate>>} :
          pages = <<<<cimbExample>> \o x1 \o <<<<"0", "2", " ", "J", "a", "n", " ", "2", "0", "2", "5", " ", "S", "E", "T", "O", "R", " ", "5", ".", "0", "0">>>> \o x2, <<>>>>
    /\ grid = <<>>
    /\ Start

\* what follows the amount line of the first Grammar C transaction
Tails18 ==
    { <<>>, <<<<"1", "0", ":", "1", "5", ":", "3", "0", " ", "W", "I", "B", " ", "R", "E", "F", "1", "2", "3">>>>, <<<<"1", "0", ":", "1", "5", ":", "3", "0", " ", "W", "I", "B">>, <<"R", "E", "F", "4", "5", "6">>>>,
      <<<<"1", "0", ":", "1", "5", ":", "3", "0", " ", "W", "I", "B">>, <<"T", "r", "a", "n", "s", "f", "e", "r", " ", "k", "e", " ", "B", "C", "A">>>>, <<<<"C", "A", "T", "A", "T", "A", "N">>>> }

\* Grammar C: a date line, its amount line and what follows it, then a second date line,
\* a line of text and its amount line
InitC5 ==
    /\ grammar = "C"
    /\ \E amt1 \in {<<"1", ".", "5", "0", "0", ",", "0", "0", " ", "1", "0", ".", "0", "0", "0", ",", "0", "0">>, <<"B", "I", "A", "Y", "A", " ", "1", ".", "5", "0", "0", ",", "0", "0", " ", "1", "0", ".", "0", "0", "0", ",", "0", "0">>}, tail1 \in Tails18,
          date2 \in {<<"1", "7", " ", "M", "a", "r", " ", "2", "0", "2", "5">>, <<"1", "7", " ", "M", "a", "r", " ", "2", "0", "2", "5", " ", "T", "A", "R", "I", "K">>, <<"3", "1", " ", "F", "e", "b", " ", "2", "0", "2", "5", " ", "T", "A", "R", "I", "K">>},
          mid2 \in {<<>>, <<<<"K", "E", " ", "R", "E", "K", "E", "N", "I", "N", "G">>>>} :
          pages = <<<<<<"1", "5", " ", "M", "a", "r", " ", "2", "0", "2", "5", " ", "S", "E", "T", "O", "R">>, amt1>> \o tail1 \o <<date2>> \o mid2
                        \o <<<<"A", "D", "M", "I", "N", " ", "-", "2", "0", "0", ",", "0", "0", " ", "9", ".", "8", "0", "0", ",", "0", "0">>>>, <<>>>>
    /\ grid = <<>>
    /\ Start

InitU == InitA4 \/ InitB4 \/ InitC5

SpecU == InitU /\ [][NextT]_vars

-----------------------------------------------------------------------------
(* Grids of the header row and one data row                                *)

\* date cells, each with the date it stands for (NoDate: the row has no usable date)
Dates4 ==
    { [c |-> Str(<<"0", "1", "/", "0", "3", "/", "2", "0", "2", "5">>), d |-> MkDate(2025, 3, 1)],
      [c |-> DateCell(2025, 3, 1), d |-> MkDate(2025, 3, 1)],
      [c |-> NaN, d |-> NoDate],
      [c |-> Str(<<"3", "1", "/", "0", "2", "/", "2", "0", "2", "5">>), d |-> NoDate],
      [c |-> Str(<<"T", "o", "t", "a", "l">>), d |-> NoDate] }

\* amount cells, each with the value it stands for, in hundredths
Amounts4 ==
    { [c |-> NaN, v |-> 0], [c |-> Str(<<>>), v |-> 0], [c |-> Str(<<"-">>), v |-> 0],
      [c |-> Num(0), v |-> 0], [c |-> Num(50000), v |-> 5000000],
      [c |-> Num(0 - 5), v |-> 0 - 500], [c |-> Str(<<"1", ".", "5", "0", "0", ",", "0", "0">>), v |-> 150000] }

Balances4 == { [c |-> Num(950000), v |-> 95000000], [c |-> NaN, v |-> 0] }

\* date | BIAYA ADM | debit | credit | balance
Row4(date, debit, credit, balance) ==
    <<date.c, Str(<<"B", "I", "A", "Y", "A", " ", "A", "D", "M">>), debit.c, credit.c, balance.c>>

InitX1 ==
    /\ grammar = "X"
    /\ pages = <<>>
    /\ \E hdr \in {<<>>, <<rowHeader>>}, date \in Dates4, debit \in Amounts4,
          credit \in Amounts4, balance \in Balances4 :
          grid = hdr \o <<Row4(date, debit, credit, balance)>>
    /\ Start

SpecX1 == InitX1 /\ [][NextX]_vars

-----------------------------------------------------------------------------
(* Grids whose amount cells hold well-formed and malformed tokens          *)

\* balance cells, each with the value it stands for, in hundredths: 0 for a cell that
\* is empty or holds no number
Amounts11 ==
    { [c |-> NaN, v |-> 0], [c |-> Str(<<"-">>), v |-> 0], [c |-> Str(<<"a", "b", "c">>), v |-> 0],
      [c |-> Str(<<"1", "2", "a", "b", "c">>), v |-> 0], [c |-> Str(<<"1", ",", "2", ",", "3">>), v |-> 0],
      [c |-> Str(<<"-", "-", "5">>), v |-> 0], [c |-> Str(<<"1", ".", "5", "0", "0", ",", "0", "0">>), v |-> 150000],
      [c |-> Str(<<"-", "1", ".", "5", "0", "0", ",", "0", "0">>), v |-> 0 - 150000], [c |-> Str(<<"+", "5">>), v |-> 500],
      [c |-> Str(<<"R", "p", " ", "2", ".", "0", "0", "0", ",", "0", "0">>), v |-> 200000], [c |-> Num(0 - 5), v |-> 0 - 500] }

Debits11 == { [c |-> Str(<<"a", "b", "c">>), v |-> 0], [c |-> Num(50000), v |-> 5000000], [c |-> NaN, v |-> 0] }

Credits11 == { [c |-> NaN, v |-> 0], [c |-> Str(<<"1", ".", "5", "0", "0", ",", "0", "0">>), v |-> 150000] }

\* 01/03/2025 | BIAYA ADM | debit | credit | balance
Row11(debit, credit, balance) ==
    <<Str(<<"0", "1", "/", "0", "3", "/", "2", "0", "2", "5">>), Str(<<"B", "I", "A", "Y", "A", " ", "A", "D", "M">>), debit.c, credit.c, balance.c>>

InitX3 ==
    /\ grammar = "X"
    /\ pages = <<>>
    /\ \E hdr \in {<<>>, <<rowHeader>>}, debit \in Debits11, credit \in Credits11,
          balance \in Amounts11, after \in {<<>>, <<rowCredit>>} :
          grid = hdr \o <<Row11(debit, credit, balance)>> \o after
    /\ Start

\* amount tokens of decimal-comma statement lines and of grid cells
InitP == InitC \/ InitX3

NextP == NextC \/ NextX

SpecP == InitP /\ [][NextP]_vars

-----------------------------------------------------------------------------
(* Grids with and without header rows                                      *)

\* No | Tanggal Transaksi | KETERANGAN | Debit | Kredit
rowKeterangan ==
    <<Str(<<"N", "o">>), Str(<<"T", "a", "n", "g", "g", "a", "l", " ", "T", "r", "a", "n", "s", "a", "k", "s", "i">>), Str(<<"K", "E", "T", "E", "R", "A", "N", "G", "A", "N">>), Str(<<"D", "e", "b", "i", "t">>), Str(<<"K", "r", "e", "d", "i", "t">>)>>

\* Tanggal | Rincian | Debet | Kredit | Saldo
rowFallback == <<Str(<<"T", "a", "n", "g", "g", "a", "l">>), Str(<<"R", "i", "n", "c", "i", "a", "n">>), Str(<<"D", "e", "b", "e", "t">>), Str(<<"K", "r", "e", "d", "i", "t">>), Str(<<"S", "a", "l", "d", "o">>)>>

\* Periode | Tanggal
rowNotFirst == <<Str(<<"P", "e", "r", "i", "o", "d", "e">>), Str(<<"T", "a", "n", "g", "g", "a", "l">>)>>

\* | 01/03/2025 | SETOR | | 50
rowShifted == <<NaN, Str(<<"0", "1", "/", "0", "3", "/", "2", "0", "2", "5">>), Str(<<"S", "E", "T", "O", "R">>), NaN, Num(50)>>

\* rows, each with what it is: a header row (date and description keywords), a
\* fallback header row (date keyword in the first cell), or neither
Rows5 ==
    { [cells |-> rowHeader, full |-> TRUE, fall |-> TRUE],
      [cells |-> rowKeterangan, full |-> TRUE, fall |-> FALSE],
      [cells |-> rowFallback, full |-> FALSE, fall |-> TRUE],
      [cells |-> rowNotFirst, full |-> FALSE, fall |-> FALSE],
      [cells |-> rowCredit, full |-> FALSE, fall |-> FALSE],
      [cells |-> rowShifted, full |-> FALSE, fall |-> FALSE] }

InitX2 ==
    /\ grammar = "X"
    /\ pages = <<>>
    /\ grid \in SeqUpTo({x.cells : x \in Rows5}, MaxLines)
    /\ Start

SpecX2 == InitX2 /\ [][NextX]_vars

-----------------------------------------------------------------------------
(* Exports of parsed transactions under an output configuration            *)

\* the parser variables of a state in which no parser runs
NoParse ==
    /\ grammar = "none"
    /\ pages = <<>>
    /\ grid = <<>>
    /\ cols = NoCols
    /\ pg = 1
    /\ i = 0
    /\ year = 0
    /\ opening_balance = 0
    /\ running_balance = 0

\* a transaction as a parser builds it (base.py lines 11-21)
Transaction(date, description, amount, type, balance, currency) ==
    [ date |-> date, description |-> description, amount |-> amount, type |-> type,
      balance |-> balance, reference_no |-> <<>>, bank_name |-> <<"B", "C", "A">>,
      account_owner |-> <<"U", "n", "k", "n", "o", "w", "n">>, currency |-> currency ]

Transactions6 ==
    { Transaction(MkDate(2025, 2, 1), <<"T", "R", "A", "N", "S", "F", "E", "R", " ", "D", "A", "N", "A">>, 10616100, "DEBIT", 50000000, <<"I", "D", "R">>),
      Transaction(MkDate(2025, 3, 15), <<"S", "E", "T", "O", "R">>, 150000, "CREDIT", 1000000, <<"I", "D", "R">>),
      Transaction(MkDate(2025, 12, 31), <<"B", "U", "N", "G", "A">>, 0, "CREDIT", 0, <<>>) }

\* the arguments of OutputFormat(...) followed by export_csv
ExportArgs ==
    [ op : {"export_csv"}, date_format : {<<"%", "d", "/", "%", "m", "/", "%", "Y">>, <<"y", "y", "y", "y", "m", "m", "d", "d">>},
      combine_debit_credit : BOOLEAN, include_reference : BOOLEAN,
      include_balance : BOOLEAN, include_bank : BOOLEAN, include_owner : BOOLEAN,
      currency : {<<"U", "S", "D">>}, include_currency_col : BOOLEAN, filename_format : {<<>>},
      parsed : SeqUpTo(Transactions6, 1) ]

\* export_csv with a constructed OutputFormat, or with none
InitE ==
    /\ NoParse
    /\ transactions = <<>>
    /\ args \in ExportArgs
    /\ pc \in {"construct", "call"}
    /\ output_format = NoFormat
    /\ result = NoResult
    /\ banks = <<>>
    /\ files = <<>>
    /\ total_processed = 0
    /\ written = <<>>

NextE ==
    \/ Construct
    \/ ExportNothing
    \/ ExportCsv

SpecE == InitE /\ [][NextE]_vars

\* the date formats given to the constructor: the seven preset names, a preset name in
\* capitals, and strftime strings with and without a month and a year
DateFormats7 ==
    { <<"d", "d", "/", "m", "m", "/", "y", "y", "y", "y">>, <<"d", "d", "m", "m", "y", "y", "y", "y">>, <<"m", "m", "y", "y", "y", "y">>, <<"m", "m", "m", "m">>, <<"m", "m">>, <<"d", "d", "/", "m", "m">>, <<"y", "y", "y", "y", "m", "m", "d", "d">>,
      <<"M", "M", "M", "M">>, <<"%", "d", "-", "%", "b", "-", "%", "y">>, <<"%", "B", " ", "%", "Y">>, <<"%", "d", "/", "%", "m">>, <<"%", "Y">>, <<"%", "d">> }

\* the arguments of OutputFormat(date_format=...) followed by export_csv
DateArgs ==
    [ op : {"export_csv"}, date_format : DateFormats7,
      combine_debit_credit : BOOLEAN, include_reference : {TRUE},
      include_balance : {TRUE}, include_bank : {TRUE}, include_owner : {TRUE},
      currency : {<<"I", "D", "R">>}, include_currency_col : {FALSE}, filename_format : {<<>>},
      parsed : SeqUpTo(Transactions6, 1) ]

\* the constructor called with each date format, then export_csv
InitF ==
    /\ NoParse
    /\ transactions = <<>>
    /\ args \in DateArgs
    /\ pc = "construct"
    /\ output_format = NoFormat
    /\ result = NoResult
    /\ banks = <<>>
    /\ files = <<>>
    /\ total_processed = 0
    /\ written = <<>>

NextF ==
    \/ Construct
    \/ ConstructRaises
    \/ ExportNothing
    \/ ExportCsv

SpecF == InitF /\ [][NextF]_vars

\* the filename templates given to the constructor, each with what it is made of:
\* literal text (f = "text") and replacement fields; named says that every field is
\* named, known that every field is one of the six placeholders
Templates8 ==
    { [s |-> <<>>, named |-> TRUE, known |-> TRUE,
       pieces |-> << [f |-> "bank", t |-> <<>>], [f |-> "text", t |-> <<"-", "[">>],
                     [f |-> "owner", t |-> <<>>], [f |-> "text", t |-> <<"]", "-">>],
                     [f |-> "account", t |-> <<>>], [f |-> "text", t |-> <<"-">>],
                     [f |-> "start_date", t |-> <<>>], [f |-> "text", t |-> <<"-">>],
                     [f |-> "end_date", t |-> <<>>], [f |-> "text", t |-> <<".", "c", "s", "v">>] >>],
      [s |-> <<"{", "b", "a", "n", "k", "}", "_", "{", "a", "c", "c", "o", "u", "n", "t", "}", ".", "c", "s", "v">>, named |-> TRUE, known |-> TRUE,
       pieces |-> << [f |-> "bank", t |-> <<>>], [f |-> "text", t |-> <<"_">>],
                     [f |-> "account", t |-> <<>>], [f |-> "text", t |-> <<".", "c", "s", "v">>] >>],
      [s |-> <<"{", "o", "w", "n", "e", "r", "}", " ", "{", "s", "t", "a", "r", "t", "_", "d", "a", "t", "e", "}", "-", "{", "e", "n", "d", "_", "d", "a", "t", "e", "}", " ", "{", "c", "u", "r", "r", "e", "n", "c", "y", "}", ".", "c", "s", "v">>, named |-> TRUE, known |-> TRUE,
       pieces |-> << [f |-> "owner", t |-> <<>>], [f |-> "text", t |-> <<" ">>],
                     [f |-> "start_date", t |-> <<>>], [f |-> "text", t |-> <<"-">>],
                     [f |-> "end_date", t |-> <<>>], [f |-> "text", t |-> <<" ">>],
                     [f |-> "currency", t |-> <<>>], [f |-> "text", t |-> <<".", "c", "s", "v">>] >>],
      [s |-> <<"{", "{", "{", "b", "a", "n", "k", "}", "}", "}", ".", "c", "s", "v">>, named |-> TRUE, known |-> TRUE,
       pieces |-> << [f |-> "text", t |-> <<"{">>], [f |-> "bank", t |-> <<>>],
                     [f |-> "text", t |-> <<"}", ".", "c", "s", "v">>] >>],
      [s |-> <<"{", "b", "a", "n", "k", "}", "-", "{", "m", "o", "n", "t", "h", "}", ".", "c", "s", "v">>, named |-> TRUE, known |-> FALSE, pieces |-> <<>>],
      [s |-> <<"{", "y", "e", "a", "r", "}", "/", "{", "b", "a", "n", "k", "}", ".", "c", "s", "v">>, named |-> TRUE, known |-> FALSE, pieces |-> <<>>],
      [s |-> <<"{", "b", "a", "n", "k", "}", "-", "{", "}", ".", "c", "s", "v">>, named |-> FALSE, known |-> FALSE, pieces |-> <<>>],
      [s |-> <<"{", "0", "}", "-", "{", "b", "a", "n", "k", "}", ".", "c", "s", "v">>, named |-> FALSE, known |-> FALSE, pieces |-> <<>>] }

\* owner names, each with the name sanitized
Owners8 ==
    { [s |-> <<"B", "u", "d", "i", " ", "S", "a", "n", "t", "o", "s", "o">>, safe |-> <<"B", "u", "d", "i", " ", "S", "a", "n", "t", "o", "s", "o">>],
      [s |-> <<" ", "S", "I", "T", "I", ",", " ", "S", ".", "E", ".", " ", "(", "2", ")", " ">>, safe |-> <<"S", "I", "T", "I", " ", "S", ".", "E", ".">>],
      [s |-> <<"P", "T", ".", " ", "A", "/", "B", "-", "1">>, safe |-> <<"P", "T", ".", " ", "A", "B">>],
      [s |-> <<"1", "2", "3">>, safe |-> <<>>] }

\* date formats, each with the first and the last day of January 2025 rendered
Dates8 ==
    { [s |-> <<"d", "d", "m", "m", "y", "y", "y", "y">>, start |-> <<"0", "1", "0", "1", "2", "0", "2", "5">>, end |-> <<"3", "1", "0", "1", "2", "0", "2", "5">>],
      [s |-> <<"%", "d", "-", "%", "b", "-", "%", "y">>, start |-> <<"0", "1", "-", "J", "a", "n", "-", "2", "5">>, end |-> <<"3", "1", "-", "J", "a", "n", "-", "2", "5">>] }

\* the arguments of OutputFormat(...) followed by format_filename(...)
FilenameArgs ==
    [ op : {"format_filename"}, date_format : {x.s : x \in Dates8},
      combine_debit_credit : {FALSE}, include_reference : {TRUE},
      include_balance : {TRUE}, include_bank : {TRUE}, include_owner : {TRUE},
      currency : {<<"I", "D", "R">>}, include_currency_col : {FALSE},
      filename_format : {x.s : x \in Templates8},
      bank_name : {<<"B", "C", "A">>, <<"M", "a", "n", "d", "i", "r", "i">>}, owner_name : {x.s : x \in Owners8},
      account_number : {<<"1", "2", "3", "4", "5", "6", "7", "8", "9", "0">>},
      start_date : {MkDate(2025, 1, 1)}, end_date : {MkDate(2025, 1, 31)} ]

\* the constructor called with each template, then format_filename
InitG ==
    /\ NoParse
    /\ transactions = <<>>
    /\ args \in FilenameArgs
    /\ pc = "construct"
    /\ output_format = NoFormat
    /\ result = NoResult
    /\ banks = <<>>
    /\ files = <<>>
    /\ total_processed = 0
    /\ written = <<>>

NextG ==
    \/ Construct
    \/ FormatFilename
    \/ FormatFilenameRaises

SpecG == InitG /\ [][NextG]_vars

\* the longest owner name
MaxLen == 4

\* the characters of an owner name: those sanitization keeps and those it drops
Kept9 == {"a", "Z", " ", "\t", "."}

Dropped9 == {"1", "-"}

\* every owner name of up to MaxLen characters is sanitized
InitS ==
    /\ NoParse
    /\ transactions = <<>>
    /\ args \in [op : {"sanitize"}, owner_name : SeqUpTo(Kept9 \cup Dropped9, MaxLen)]
    /\ pc = "call"
    /\ output_format = NoFormat
    /\ result = NoResult
    /\ banks = <<>>
    /\ files = <<>>
    /\ total_processed = 0
    /\ written = <<>>

NextS == SanitizeOwner

SpecS == InitS /\ [][NextS]_vars

\* the most files a folder holds
MaxFiles == 2

\* what parse() does with a file
Outcomes10 == {"ok", "empty", "raises"}

\* a file of the folder, with the bank whose search finds it ("none": no search does)
File10(name, text, opens, parse, found) ==
    [ name |-> name, text |-> text, opens |-> opens, parse |-> parse, found |-> found ]

\* the files: a BCA statement under its download name, one named with the full month
\* name, a CIMB statement, a password-protected Mandiri workbook, and a PDF that is no
\* statement
Files10 ==
    { File10(<<"1", "2", "3", "_", "J", "U", "L", "_", "2", "0", "2", "5", ".", "p", "d", "f">>, <<"M", "U", "T", "A", "S", "I", " ", "R", "E", "K", "E", "N", "I", "N", "G">>, TRUE, o, "bca") : o \in Outcomes10 }
        \cup { File10(<<"1", "2", "3", "_", "M", "A", "R", "E", "T", "_", "2", "0", "2", "5", ".", "p", "d", "f">>, <<"M", "U", "T", "A", "S", "I", " ", "R", "E", "K", "E", "N", "I", "N", "G">>, TRUE, o, "bca") :
                 o \in Outcomes10 }
        \cup { File10(<<"C", "A", "S", "A", "_", "N", "o", "v", "2", "0", "2", "5", ".", "p", "d", "f">>, <<"C", "I", "M", "B", " ", "N", "I", "A", "G", "A">>, TRUE, o, "cimb") : o \in Outcomes10 }
        \cup { File10(<<"e", "-", "S", "t", "a", "t", "e", "m", "e", "n", "t", "_", "1", "2", "3", ".", "x", "l", "s", "x">>, <<>>, FALSE, o, "mandiri") : o \in Outcomes10 }
        \cup { File10(<<"B", "C", "A", "_", "r", "e", "c", "e", "i", "p", "t", ".", "p", "d", "f">>, <<"K", "U", "I", "T", "A", "N", "S", "I">>, TRUE, "ok", "none") }

\* the arguments of main(): the folder and its files in the order of os.walk, and the
\* bank; a folder that does not exist has no file
RunArgs ==
    [ op : {"main"}, exists : {TRUE}, folder : SeqUpTo(Files10, MaxFiles),
      bank : {"all", "bca", "cimb", "bni"} ]
        \cup [ op : {"main"}, exists : {FALSE}, folder : {<<>>}, bank : {"all"} ]

\* a run of main()
InitR ==
    /\ NoParse
    /\ transactions = <<>>
    /\ args \in RunArgs
    /\ pc = "main"
    /\ output_format = NoFormat
    /\ result = NoResult
    /\ banks = <<>>
    /\ files = <<>>
    /\ total_processed = 0
    /\ written = <<>>

NextR ==
    \/ Main
    \/ NextBank
    \/ ProcessFile
    \/ Finish

SpecR == InitR /\ [][NextR]_vars

\* main() is one sequential process: a step that can be taken is taken
SpecRFair == SpecR /\ WF_vars(NextR)

-----------------------------------------------------------------------------
(* Properties                                                              *)

\* the transactions emitted so far
Emitted == {transactions[k] : k \in 1..Len(transactions)}

\* the line (row) of the statement a transaction starts at
StartLine(tr) ==
    IF grammar = "X" THEN grid[tr.src_line + 1] ELSE pages[tr.src_page][tr.src_line + 1]

\* C1: every transaction emitted by any of the four grammars has amount >= 0 and type
\* DEBIT or CREDIT, also for grid rows whose debit and credit cells are zero or negative
C1_AmountAndDirection ==
    \A tr \in Emitted : tr.amount >= 0 /\ tr.type \in {"DEBIT", "CREDIT"}

\* the transaction a step emits, given that it emits one
Last(txs) == txs[Len(txs)]

\* a step emits a transaction
Emits == Len(transactions') = Len(transactions) + 1

\* the opening balance written in the header of a Grammar A statement, -1 when the
\* header shows none
WrittenOpening ==
    IF pages[1] # <<>> /\ pages[1][1] = hdrSaldoAwal THEN 10000
    ELSE IF pages[1] # <<>> /\ pages[1][1] = hdrSaldoNol THEN 0
    ELSE -1

\* the accumulator after amount is subtracted for DEBIT, added for CREDIT
Moved(running, tr) ==
    IF tr.type = "DEBIT" THEN running - tr.amount ELSE running + tr.amount

\* what C2 says of the transaction tr a step emits
C2_Step(tr) ==
    IF tr.src_balance = 0 /\ WrittenOpening # -1
    THEN /\ running_balance' = Moved(running_balance, tr)
         /\ tr.balance = running_balance'
    ELSE tr.balance = tr.src_balance

\* C2: in Grammar A a transaction's balance is back-filled exactly when its source balance
\* is missing (0) and an opening balance was discovered in the header: the running balance
\* moves by the amount and becomes the balance; with no opening balance a missing balance
\* is emitted as 0
C2_Backfill == [][(grammar = "A" /\ Emits) => C2_Step(Last(transactions'))]_vars

\* the balance token written on a Grammar A line, -1 when the line carries none
WrittenBalance(line) ==
    CASE line = lnDebitBal  -> 7000
      [] line = lnCreditBal -> 10000
      [] line = lnDebitZero -> 0
      [] OTHER              -> -1

\* the accumulator is left alone when the scan moves to the next page
PersistsAcrossPages == pg' # pg => running_balance' = running_balance

\* a back-filled balance is computed from the accumulator as the step found it
BackfilledFrom(tr) ==
    tr.balance # tr.src_balance => tr.balance = Moved(running_balance, tr)

\* what C3 says of the transaction tr a step emits
C3_Step(tr) ==
    /\ WrittenBalance(StartLine(tr)) >= 0 => running_balance' = WrittenBalance(StartLine(tr))
    /\ BackfilledFrom(tr)

\* C3 as stated: in Grammar A, after any transaction whose source carries an explicit
\* balance token the accumulator equals that balance, the next back-filled balance is
\* computed from it, and the accumulator persists across pages
C3_HardSetAnyToken ==
    [][/\ (grammar = "A" /\ Emits) => C3_Step(Last(transactions'))
       /\ PersistsAcrossPages]_vars

\* the amended C3 of the transaction tr a step emits
C3_StepNonZero(tr) ==
    /\ WrittenBalance(StartLine(tr)) > 0 => running_balance' = WrittenBalance(StartLine(tr))
    /\ BackfilledFrom(tr)

\* C3 amended: in Grammar A, after any transaction whose source carries an explicit balance
\* token other than 0.00 the accumulator equals that balance, the next back-filled balance
\* is computed from it, and the accumulator persists across pages
C3_HardSetNonZeroToken ==
    [][/\ (grammar = "A" /\ Emits) => C3_StepNonZero(Last(transactions'))
       /\ PersistsAcrossPages]_vars

\* C3 witness: on page 2 a balance is back-filled from the accumulator that a balance token
\* on page 1 has overridden
C3_Witness ==
    /\ grammar = "A"
    /\ Len(transactions) = 3
    /\ transactions[1].balance # transactions[1].src_balance
    /\ transactions[2].src_page = 1
    /\ WrittenBalance(StartLine(transactions[2])) > 0
    /\ transactions[2].balance # Moved(transactions[1].balance, transactions[2])
    /\ transactions[3].src_page = 2
    /\ transactions[3].src_balance = 0
    /\ transactions[3].balance = Moved(WrittenBalance(StartLine(transactions[2])), transactions[3])
    /\ running_balance = transactions[3].balance

\* the balance after the k-th of txs when the opening balance is moved by each amount in
\* turn: a function of the opening balance, the amounts and the directions alone
RECURSIVE Reconciled(_, _, _)
Reconciled(opening, txs, k) ==
    IF k = 0 THEN opening ELSE Moved(Reconciled(opening, txs, k - 1), txs[k])

\* no transaction of the statement carries a balance token
AllBlank ==
    \A k \in 1..Len(transactions) : WrittenBalance(StartLine(transactions[k])) = -1

\* every transaction of the statement carries a balance token, which is the previous
\* balance moved by its amount
AllUntampered ==
    \A k \in 1..Len(transactions) :
        WrittenBalance(StartLine(transactions[k])) = Reconciled(WrittenOpening, transactions, k)

\* C4: given an opening balance, a Grammar A statement whose balance tokens are present and
\* un-tampered and the same statement with every balance token blanked are emitted with
\* the same balances: in both, the k-th balance is the opening balance moved by the first
\* k amounts, each in its direction
C4_Idempotence ==
    (grammar = "A" /\ pc = "done" /\ WrittenOpening # -1 /\ (AllBlank \/ AllUntampered))
        => \A k \in 1..Len(transactions) :
              transactions[k].balance = Reconciled(WrittenOpening, transactions, k)

\* the opening balance shown at the top of a PDF statement, -1 when it shows none
ShownOpening ==
    IF pages = <<>> \/ pages[1] = <<>> THEN -1
    ELSE IF pages[1][1] \in {hdrSaldoAwal, cimbSaldoAwal} THEN 10000
    ELSE -1

\* the balance before the k-th transaction: the opening balance, then each emitted balance
Before(k) == IF k = 1 THEN ShownOpening ELSE transactions[k - 1].balance

ReadBalance(tr) ==
    IF grammar = "B"
    THEN (IF StartLine(tr) = cimbExample THEN 40000000 ELSE -1)
    ELSE CASE pages[tr.src_page][tr.src_line + 2] = mdrAmounts   -> 980000
           [] pages[tr.src_page][tr.src_line + 2] = mdrZero      -> 500
           [] pages[tr.src_page][tr.src_line + 2] = mdrNoBalance -> 0
           [] OTHER                                              -> -1

\* Grammar A back-fills a missing balance once it holds an opening balance above zero
C5_StepA(tr) ==
    (tr.src_balance = 0 /\ opening_balance > 0)
        => /\ tr.balance = Moved(running_balance, tr)
           /\ running_balance' = tr.balance

\* Grammars B and C emit the balance as read, 0 when it is missing
C5_StepBC(tr) == tr.balance = Max(0, ReadBalance(tr))

EmittedAt(p, j) == \E tr \in Emitted : tr.src_page = p /\ tr.src_line = j

\* the valid transactions of the statement are emitted: the start lines with a valid date
\* and an amount (A, B), the date line followed by its amount line (C), the data row (X)
ValidEmitted ==
    /\ \A p \in 1..Len(pages) : \A j \in 1..Len(pages[p]) :
          (\/ pages[p][j] \in {lnDebit, cimbExample}
           \/ pages[p][j] = mdrDate /\ j < Len(pages[p]) /\ pages[p][j + 1] = mdrAmounts)
              => EmittedAt(p, j - 1)
    /\ \A r \in 1..Len(grid) :
          (cols.header # -1 /\ r - 1 > cols.header /\ grid[r] = rowCredit) => EmittedAt(1, r - 1)

\* C6: in every grammar a start line whose day/month/year is no calendar date never aborts
\* the parse: parse() does not raise, and the valid transactions before and after the
\* line are still emitted
C6_NeverAborts == pc # "raised" /\ (pc = "done" => ValidEmitted)

\* the number of the month whose three-letter name is written, 0 when it names none
WrittenMonth(name) ==
    CASE name = <<"J", "a", "n">> -> 1 [] name = <<"F", "e", "b">> -> 2 [] name = <<"M", "a", "r">> -> 3
      [] name = <<"A", "p", "r">> -> 4 [] OTHER -> 0

\* the date written at the start of a line 'DD Mon YYYY ...'
WrittenDayMonYear(line) ==
    MkDate(DigitsVal(SubSeq(line, 8, 11)), WrittenMonth(SubSeq(line, 4, 6)),
           DigitsVal(SubSeq(line, 1, 2)))

\* the date written in a cell: the date of a date cell, day first in 'DD/MM/YYYY'
WrittenCellDate(x) ==
    IF x.k = "date" THEN x.d
    ELSE MkDate(DigitsVal(SubSeq(x.s, 7, 10)), DigitsVal(SubSeq(x.s, 4, 5)),
                DigitsVal(SubSeq(x.s, 1, 2)))

\* the date written on the start line or row of a transaction; Grammar A lines 'DD/MM ...'
\* take the statement year
WrittenDate(tr) ==
    CASE grammar = "A" -> MkDate(year, DigitsVal(SubSeq(StartLine(tr), 4, 5)),
                                 DigitsVal(SubSeq(StartLine(tr), 1, 2)))
      [] grammar = "X" -> WrittenCellDate(StartLine(tr)[1])
      [] OTHER         -> WrittenDayMonYear(StartLine(tr))

IsCalendarDate(date) == ValidDate(date.y, date.m, date.d)

C8_NoZeroAmountNoEmptyDescription ==
    \A tr \in Emitted : tr.amount # 0 /\ tr.description # <<>>

\* the one-line statement the state was built from, if any
Case1 == {c \in Cases1 : pages = Pages1(c)}

\* a case the claim speaks of: the day and month are valid in the header year
Valid1(c) == ValidDate(c.hdr.y, c.date.m, c.date.d)

\* what the body line says, field by field
Says1(c, tr, balance, description) ==
    /\ tr.date = MkDate(c.hdr.y, c.date.m, c.date.d)
    /\ tr.amount = c.amt.v
    /\ tr.type = (IF c.marker.near THEN "DEBIT" ELSE "CREDIT")
    /\ tr.balance = balance
    /\ tr.description = description

\* C9 as stated: a Grammar A body line DD/MM <text> <amt> DB <bal> under header year Y
\* yields exactly one transaction dated Y-MM-DD with amount amt, DEBIT, balance bal and
\* description <text>; without a DB marker within 5 characters of amt it is CREDIT
C9_OneLineAsWritten ==
    \A c \in Case1 :
        pc = "done" /\ Valid1(c) =>
            /\ Len(transactions) = 1
            /\ Says1(c, transactions[1], c.bal.v, c.text.desc)

\* the balance of the one-line case: the written one unless it is 0.00 under a
\* discovered opening balance, when it is the opening balance moved by the amount
Balance1(c) ==
    IF c.bal.v = 0 /\ c.hdr.opening > 0
    THEN (IF c.marker.near THEN c.hdr.opening - c.amt.v ELSE c.hdr.opening + c.amt.v)
    ELSE c.bal.v

\* the description of the one-line case: a DB marker beyond 5 characters stays in it
Description1(c) == IF c.marker.far THEN c.text.desc \o <<" ", "D", "B">> ELSE c.text.desc

\* C9 amended: when <text> does not contain SALDO AWAL the line yields exactly one
\* transaction dated Y-MM-DD with amount amt, DEBIT iff DB lies within 5 characters of
\* amt, description <text> (plus a DB marker lying farther away), and balance bal unless
\* bal is 0.00 and an opening balance was found, when it is back-filled; a line whose
\* <text> contains SALDO AWAL yields no transaction
C9_OneLine ==
    \A c \in Case1 :
        pc = "done" /\ Valid1(c) =>
            IF c.text.banner THEN transactions = <<>>
            ELSE /\ Len(transactions) = 1
                 /\ Says1(c, transactions[1], Balance1(c), Description1(c))

\* the spec's example line under header year 2024 has been parsed as a DEBIT
C9_Witness ==
    /\ pc = "done"
    /\ pages = <<<<hdrPeriode, <<"0", "1", "/", "0", "2", " ", "T", "R", "A", "N", "S", "F", "E", "R", " ", "D", "A", "N", "A", " ", "1", "0", "6", ",", "1", "6", "1", ".", "0", "0", " ", "D", "B", " ", "5", "0", "0", ",", "0", "0", "0", ".", "0", "0">>>>, <<>>>>
    /\ Len(transactions) = 1
    /\ transactions[1].type = "DEBIT"
    /\ transactions[1].amount = 10616100
    /\ transactions[1].balance = 50000000

\* the start line of the statement
StartLine2 == IF pages[1] = <<>> THEN <<>> ELSE pages[1][Len(pages[1])]

\* the start lines of the signed-token statements, each with its tokens
Case2 ==
    {c \in [text : Texts2, toks : SeqUpTo(Tokens2, MaxTokens)] :
        StartLine2 = Line2(c.text, c.toks)}

\* the positions of the tokens written with a leading '-'
Negatives(toks) == {k \in 1..Len(toks) : toks[k].v < 0}

\* the first token with a leading '-' if there is one, else the first token
AmountToken(toks) ==
    IF Negatives(toks) # {} THEN toks[Least(Negatives(toks))] ELSE toks[1]

\* C10: in Grammar B the first signed token with a leading '-' is the amount (its
\* absolute value) and the transaction is DEBIT; when no token is negative the
\* first token is the amount and the transaction is CREDIT; the line
\* 01 Jan 2025 OVERBOOKING REF123 -100,000.00 400,000.00 yields 100000.00, DEBIT,
\* balance 400000.00
C10_FirstNegativeElseFirst ==
    /\ \A c \in Case2 :
          pc = "done" /\ c.toks # <<>> =>
              /\ Len(transactions) = 1
              /\ transactions[1].amount = Abs(AmountToken(c.toks).v)
              /\ transactions[1].type =
                     (IF Negatives(c.toks) # {} THEN "DEBIT" ELSE "CREDIT")
    /\ pc = "done" /\ StartLine2 = cimbExample =>
          /\ Len(transactions) = 1
          /\ transactions[1].amount = 10000000
          /\ transactions[1].type = "DEBIT"
          /\ transactions[1].balance = 40000000

\* a line whose first negative token is not its first token has been parsed
C10_Witness ==
    /\ pc = "done"
    /\ Len(transactions) = 1
    /\ \E c \in Case2 :
          /\ Len(c.toks) = 3
          /\ c.toks[1].v > 0 /\ c.toks[2].v < 0 /\ c.toks[3].v < 0
          /\ transactions[1].amount = Abs(c.toks[2].v)
          /\ transactions[1].type = "DEBIT"

\* the last line of the statement's first page
LastLine3 == IF pages[1] = <<>> THEN <<>> ELSE pages[1][Len(pages[1])]

\* the tokens written on the last line of a decimal-comma statement
Tokens3On ==
    {toks \in SeqUpTo(Tokens3, MaxTokens) \ {<<>>} :
        \E prefix \in Prefixes3 : LastLine3 = Line3(prefix, toks)}

\* a number, whitespace, a number: a token followed by a token without a sign
PairOn3(toks) == \E k \in 1..(Len(toks) - 1) : toks[k + 1].v >= 0

\* the lines of the statement's first page
Lines3 == {pages[1][k] : k \in 1..Len(pages[1])}

\* text is written before, after or beside the date line
Described3 == Len(pages[1]) > 2 \/ \A toks \in Tokens3On : LastLine3 # Line3(<<>>, toks)

\* C11: in Grammar C the first numeric token of the amount line is the amount
\* (negative: DEBIT with the absolute value, else CREDIT) and its last numeric token
\* is the balance; a described transaction with such a line is emitted once;
\* TRANSFER MASUK / 15 Mar 2025 / 1.500,00 10.000,00 yields one
\* transaction, 1500.00 CREDIT, balance 10000.00, described with TRANSFER MASUK
C11_FirstIsAmountLastIsBalance ==
    /\ \A toks \in Tokens3On : \A k \in 1..Len(transactions) :
          /\ Len(toks) >= 2
          /\ transactions[k].amount = Abs(toks[1].v)
          /\ transactions[k].type = (IF toks[1].v < 0 THEN "DEBIT" ELSE "CREDIT")
          /\ transactions[k].balance = toks[Len(toks)].v
    /\ \A toks \in Tokens3On :
          pc = "done" /\ PairOn3(toks) /\ Described3 /\ <<"1", "5", " ", "M", "a", "r", " ", "2", "0", "2", "5">> \in Lines3 =>
              Len(transactions) = 1
    /\ pc = "done"
       /\ pages = <<<<<<"T", "R", "A", "N", "S", "F", "E", "R", " ", "M", "A", "S", "U", "K">>, <<"1", "5", " ", "M", "a", "r", " ", "2", "0", "2", "5">>, <<"1", ".", "5", "0", "0", ",", "0", "0", " ", "1", "0", ".", "0", "0", "0", ",", "0", "0">>>>, <<>>>> =>
          /\ Len(transactions) = 1
          /\ transactions[1].amount = 150000
          /\ transactions[1].type = "CREDIT"
          /\ transactions[1].balance = 1000000
          /\ Contains(<<"T", "R", "A", "N", "S", "F", "E", "R", " ", "M", "A", "S", "U", "K">>, transactions[1].description)

\* a line of three tokens after free text has been read as a DEBIT whose balance is
\* the third token
C11_Witness ==
    /\ pc = "done"
    /\ Len(transactions) = 1
    /\ \E toks \in Tokens3On :
          /\ Len(toks) = 3
          /\ toks[1].v < 0 /\ toks[2].v # toks[3].v /\ toks[1].v # 0 - toks[3].v
          /\ transactions[1].type = "DEBIT"
          /\ transactions[1].balance = toks[3].v

\* the data row of a two-row grid under the five-column header
IsGrid4 == Len(grid) = 2 /\ grid[1] = rowHeader

\* what the cells of the data row stand for
DateOf4 == (CHOOSE x \in Dates4 : x.c = grid[2][1]).d

DebitOf4 == (CHOOSE x \in Amounts4 : x.c = grid[2][3]).v

CreditOf4 == (CHOOSE x \in Amounts4 : x.c = grid[2][4]).v

BalanceOf4 == (CHOOSE x \in Balances4 : x.c = grid[2][5]).v

\* the one transaction a row with a usable date and a positive cell yields
Mapped4(tr) ==
    /\ tr.date = DateOf4
    /\ tr.amount = Max(DebitOf4, CreditOf4)
    /\ tr.type = (IF DebitOf4 > 0 THEN "DEBIT" ELSE "CREDIT")
    /\ tr.balance = BalanceOf4

\* C12: a row after the header with a usable date yields amount = max(debit, credit),
\* DEBIT if debit > 0, else CREDIT if credit > 0; with neither and a zero amount the row
\* is skipped; ['01/03/2025','BIAYA ADM','',50000,950000] yields exactly one
\* transaction, CREDIT, amount 50000, balance 950000
C12_RowMapping ==
    /\ pc = "done" /\ IsGrid4 =>
          /\ DateOf4 = NoDate => transactions = <<>>
          /\ DateOf4 # NoDate /\ (DebitOf4 > 0 \/ CreditOf4 > 0) =>
                Len(transactions) = 1 /\ Mapped4(transactions[1])
          /\ DateOf4 # NoDate /\ DebitOf4 <= 0 /\ CreditOf4 <= 0
                /\ Max(DebitOf4, CreditOf4) = 0 => transactions = <<>>
          /\ \A k \in 1..Len(transactions) :
                transactions[k].amount = Max(DebitOf4, CreditOf4)
    /\ pc = "done"
       /\ grid = <<rowHeader, <<Str(<<"0", "1", "/", "0", "3", "/", "2", "0", "2", "5">>), Str(<<"B", "I", "A", "Y", "A", " ", "A", "D", "M">>), Str(<<>>),
                                Num(50000), Num(950000)>> >> =>
          /\ Len(transactions) = 1
          /\ transactions[1].type = "CREDIT"
          /\ transactions[1].amount = 5000000
          /\ transactions[1].balance = 95000000

\* a row whose debit and credit cells are both positive has been emitted as a DEBIT
\* with the larger of the two as its amount
C12_Witness ==
    /\ pc = "done"
    /\ IsGrid4
    /\ DebitOf4 > 0 /\ CreditOf4 > DebitOf4
    /\ Len(transactions) = 1
    /\ transactions[1].type = "DEBIT"
    /\ transactions[1].amount = CreditOf4

\* what the row at index r (from 1) of the grid is
RowAt5(r) == CHOOSE x \in Rows5 : x.cells = grid[r]

\* the header row, from 1: the first row with the date and a description keyword,
\* else the first row with the date keyword in its first cell, else 0
HeaderAt5 ==
    IF \E r \in 1..Len(grid) : RowAt5(r).full
    THEN Least({r \in 1..Len(grid) : RowAt5(r).full})
    ELSE IF \E r \in 1..Len(grid) : RowAt5(r).fall
    THEN Least({r \in 1..Len(grid) : RowAt5(r).fall})
    ELSE 0

\* C13: the header row is the first row holding the date keyword and a description
\* keyword, else the first row whose first cell holds the date keyword; with neither,
\* parse returns no transaction and does not raise; no row at or above the header row
\* yields a transaction
C13_HeaderDiscovery ==
    /\ pc # "raised"
    /\ pc = "scan" => cols.header = HeaderAt5 - 1
    /\ pc = "done" /\ HeaderAt5 = 0 => transactions = <<>>
    /\ pc # "header" /\ HeaderAt5 = 0 => pc = "done"
    /\ \A k \in 1..Len(transactions) : transactions[k].src_line + 1 > HeaderAt5

\* a grid whose fallback header row stands above its header row: the rows below the
\* latter have been read and the one row with a date has yielded a transaction
C13_Witness ==
    /\ pc = "done"
    /\ grid = <<rowFallback, rowHeader, rowCredit>>
    /\ cols.header = 1
    /\ Len(transactions) = 1
    /\ transactions[1].src_line = 2

\* export_csv has rendered the parsed transactions
Rendered6 == pc = "done" /\ args.op = "export_csv" /\ transactions # <<>>

\* the places of a key in a rendered transaction
PlacesOf(d, key) == {k \in 1..Len(d) : d[k].key = key}

\* the values a rendered transaction holds under a key
ValuesOf(d, key) == {d[k].value : k \in PlacesOf(d, key)}

\* a key stands exactly once in a rendered transaction, with this value
Holds(d, key, value) == Cardinality(PlacesOf(d, key)) = 1 /\ ValuesOf(d, key) = {value}

\* the export is in combined-column mode
Combined6 == output_format # NoFormat /\ output_format[1].combine_debit_credit

\* C14: a rendered transaction holds, in combined-column mode, a single Amount of
\* +amount for DEBIT and -amount for CREDIT and neither Debit nor Credit; in split
\* mode, Debit and Credit, the one of the direction holding the amount and the other
\* the number 0, and no Amount
C14_CombinedSignedSplitZero ==
    Rendered6 =>
        \A k \in 1..Len(transactions) :
            /\ Combined6 /\ transactions[k].type = "DEBIT" =>
                   /\ Holds(result.data[k], "Amount", transactions[k].amount)
                   /\ PlacesOf(result.data[k], "Debit") \cup PlacesOf(result.data[k], "Credit") = {}
            /\ Combined6 /\ transactions[k].type = "CREDIT" =>
                   /\ Holds(result.data[k], "Amount", 0 - transactions[k].amount)
                   /\ PlacesOf(result.data[k], "Debit") \cup PlacesOf(result.data[k], "Credit") = {}
            /\ ~Combined6 /\ transactions[k].type = "DEBIT" =>
                   /\ Holds(result.data[k], "Debit", transactions[k].amount)
                   /\ Holds(result.data[k], "Credit", 0)
                   /\ PlacesOf(result.data[k], "Amount") = {}
            /\ ~Combined6 /\ transactions[k].type = "CREDIT" =>
                   /\ Holds(result.data[k], "Credit", transactions[k].amount)
                   /\ Holds(result.data[k], "Debit", 0)
                   /\ PlacesOf(result.data[k], "Amount") = {}

\* a credit of 1.500,00 rendered in combined-column mode as -1.500,00
C14_Witness ==
    /\ Rendered6
    /\ Combined6
    /\ transactions[1].type = "CREDIT"
    /\ transactions[1].amount = 150000
    /\ ValuesOf(result.data[1], "Amount") = {0 - 150000}

\* every column there is, in the fixed order
Order6 ==
    <<"Date", "Description", "Reference No", "Amount", "Debit", "Credit", "Currency",
      "Balance", "Bank", "Owner">>

\* the arguments of the constructor ask for the column
Asked6(name) ==
    CASE name = "Reference No" -> args.include_reference
      [] name = "Amount" -> args.combine_debit_credit
      [] name \in {"Debit", "Credit"} -> ~args.combine_debit_credit
      [] name = "Currency" -> args.include_currency_col
      [] name = "Balance" -> args.include_balance
      [] name = "Bank" -> args.include_bank
      [] name = "Owner" -> args.include_owner
      [] OTHER -> TRUE

\* C15: with a constructed OutputFormat, whatever its six flags, the columns of the
\* export are the asked ones in the fixed order Date, Description, [Reference No],
\* Amount or (Debit, Credit), [Currency], [Balance], [Bank], [Owner]; the keys of every
\* rendered transaction are exactly that list in that order, and the export adds no
\* column
C15_KeysAreColumnNames ==
    Rendered6 /\ output_format # NoFormat =>
        /\ result.cols = SelectSeq(Order6, Asked6)
        /\ \A k \in 1..Len(transactions) :
              /\ Len(result.data[k]) = Len(result.cols)
              /\ \A c \in 1..Len(result.cols) : result.data[k][c].key = result.cols[c]
        /\ result.added = <<>>

\* a split-mode export with every optional column: nine columns, the keys of the
\* rendered transaction being the same nine
C15_Witness ==
    /\ Rendered6
    /\ output_format # NoFormat
    /\ result.cols = <<"Date", "Description", "Reference No", "Debit", "Credit", "Currency",
                       "Balance", "Bank", "Owner">>
    /\ Len(result.data[1]) = 9
    /\ result.data[1][6].key = "Currency"
    /\ result.added = <<>>

\* the directive letters of a strftime format: the characters that follow a % sign
Directives7(fmt) == {fmt[k + 1] : k \in {k \in 1..(Len(fmt) - 1) : fmt[k] = "%"}}

\* C16: a constructed OutputFormat has a resolved date_format with a month directive
\* (%m, %b, %B) and a year directive (%Y, %y): constructing with a date format that
\* lacks either fails
C16_MonthAndYearOrFails ==
    output_format # NoFormat =>
        /\ Directives7(output_format[1].date_format) \cap {"m", "b", "B"} # {}
        /\ Directives7(output_format[1].date_format) \cap {"Y", "y"} # {}

\* format_filename has returned or raised
Called8 == pc \in {"done", "raised"} /\ args.op = "format_filename"

\* the template, the owner name and the date format of the call, as labelled
Template8 == CHOOSE x \in Templates8 : x.s = args.filename_format

Owner8 == CHOOSE x \in Owners8 : x.s = args.owner_name

Date8 == CHOOSE x \in Dates8 : x.s = args.date_format

\* the text of a piece of a template
Text8(p) ==
    CASE p.f = "text" -> p.t
      [] p.f = "bank" -> args.bank_name
      [] p.f = "owner" -> Owner8.safe
      [] p.f = "account" -> args.account_number
      [] p.f = "currency" -> args.currency
      [] p.f = "start_date" -> Date8.start
      [] p.f = "end_date" -> Date8.end

\* the texts of the first n pieces, joined
RECURSIVE Joined8(_, _)
Joined8(pieces, n) == IF n = 0 THEN <<>> ELSE Joined8(pieces, n - 1) \o Text8(pieces[n])

\* the template with each placeholder substituted
Substituted8(x) == Joined8(x.pieces, Len(x.pieces))

\* the default-template filename
Default8 == Substituted8(CHOOSE x \in Templates8 : x.s = <<>>)

\* C17: format_filename never fails: on a template that references a placeholder other
\* than bank, owner, account, currency, start_date, end_date it returns the
\* default-template filename, and on a template of known placeholders the template
\* with each placeholder substituted
C17_FallbackOrSubstituted ==
    Called8 =>
        /\ pc = "done"
        /\ Template8.known => result = Substituted8(Template8)
        /\ ~Template8.known => result = Default8

\* an owner name has been sanitized
Sanitized9 == args.op = "sanitize" /\ result # NoResult

\* C18: sanitizing an owner name leaves no character other than letters, whitespace and
\* periods and no whitespace at either end, and sanitizing the sanitized name returns
\* the same string
C18_SanitizeIdempotent ==
    Sanitized9 =>
        /\ \A k \in 1..Len(result[1]) : result[1][k] \in Kept9
        /\ result[1] # <<>> => result[1][1] \notin {" ", "\t"}
        /\ result[1] # <<>> => result[1][Len(result[1])] \notin {" ", "\t"}
        /\ pc = "done" => result[2] = result[1]

\* the name " 1 a" sanitized to "a", and "a" sanitized to "a": the space that the
\* dropped digit leaves at the front is trimmed by the first sanitization
C18_Witness ==
    /\ Sanitized9
    /\ pc = "done"
    /\ args.owner_name = <<" ", "1", " ", "a">>
    /\ result = << <<"a">>, <<"a">> >>

\* the names of the files of the folder that the search of a bank finds, when the bank
\* is asked for; those of them that satisfy a condition
FoundBy10(bank, Cond(_)) ==
    IF args.exists /\ args.bank \in {"all", bank}
    THEN [k \in 1..Len(SelectSeq(args.folder, LAMBDA f : f.found = bank /\ Cond(f))) |->
             SelectSeq(args.folder, LAMBDA f : f.found = bank /\ Cond(f))[k].name]
    ELSE <<>>

\* the names of the found files, in the order of the run, that satisfy a condition
Found10(Cond(_)) ==
    FoundBy10("bca", Cond) \o FoundBy10("mandiri", Cond) \o FoundBy10("cimb", Cond)

Any10(f) == TRUE

\* a file without anomaly: parse() finds transactions
Good10(f) == f.parse = "ok"

\* the run has ended
Ended10 == args.op = "main" /\ pc \in {"exit0", "exit1"}

\* C19: every run ends, having processed every found file in order and written an
\* output for every found file whose parsing met no anomaly, whichever files fail
C19_FailureIsolation ==
    <>[](Ended10 /\ result = Found10(Any10) /\ written = Found10(Good10))

\* C20: the count reported as successfully processed at the end of a run is the number
\* of files for which an output was written
C20_ReportedCountIsWritten ==
    Ended10 /\ pc = "exit0" => total_processed = Len(written)

\* a grid under the five-column header whose first data row holds the amount cells
IsGrid11 == grammar = "X" /\ Len(grid) >= 2 /\ grid[1] = rowHeader

\* what the cells of the first data row stand for
DebitOf11 == (CHOOSE x \in Debits11 : x.c = grid[2][3]).v

CreditOf11 == (CHOOSE x \in Credits11 : x.c = grid[2][4]).v

BalanceOf11 == (CHOOSE x \in Amounts11 : x.c = grid[2][5]).v

\* the number of transactions the first data row yields
Yield11 == IF DebitOf11 > 0 \/ CreditOf11 > 0 THEN 1 ELSE 0

Body12 ==
    IF StartsWith(pages[1][Len(pages[1])], <<"0", "1", "/", "0", "2">>) THEN pages[1][Len(pages[1])]
    ELSE pages[1][Len(pages[1]) - 1] \o pages[1][Len(pages[1])]

\* the items written at offset k of the body
ItemsAt12(k) == {x \in Items12 : OccursAt(x.s, Body12, k)}

\* the item written at offset k: the longest of them
ItemAt12(k) == CHOOSE x \in ItemsAt12(k) : \A y \in ItemsAt12(k) : Len(y.s) <= Len(x.s)

\* the items written from offset k on
RECURSIVE ItemsFrom12(_)
ItemsFrom12(k) ==
    IF k >= Len(Body12) THEN <<>> ELSE <<ItemAt12(k)>> \o ItemsFrom12(k + Len(ItemAt12(k).s))

\* the tokens of the statement, each with what follows it
Items12On == ItemsFrom12(Len(<<"0", "1", "/", "0", "2", " ", "T", "R", "A", "N", "S", "F", "E", "R", " ", "D", "A", "N", "A", " ">>))

\* the position of the token that is the balance, 0 when the balance is missing
BalanceAt12(items) ==
    IF Len(items) < 2 THEN 0
    ELSE IF ~items[Len(items)].near THEN Len(items)
    ELSE IF Len(items) >= 3 THEN Len(items) - 1
    ELSE 0

\* the value of the balance read from the statement
BalanceOf12(items) == IF BalanceAt12(items) = 0 THEN 0 ELSE items[BalanceAt12(items)].v

\* what the transaction of the tokens holds
Selected12(items) ==
    /\ Len(transactions) = 1
    /\ transactions[1].amount = items[1].v
    /\ transactions[1].src_balance = BalanceOf12(items)
    /\ BalanceAt12(items) # 1
    /\ (\A k \in 2..Len(items) : items[k].v # items[1].v) =>
           transactions[1].src_balance # transactions[1].amount

\* C22: in Grammar A, with two or more numeric tokens in the content the balance read
\* is the last token unless DB or CR lies within 5 characters after it, and then the
\* second-to-last token if there are three tokens or more, else 0; with one token it is
\* 0; the first token is the amount and is never the token read as the balance
C22_BalanceSelection == pc = "done" => Selected12(Items12On)

\* three tokens, the last followed by CR: the second is read as the balance
C22_Witness ==
    /\ pc = "done"
    /\ pages = <<<<hdrPeriode, <<"0", "1", "/", "0", "2", " ", "T", "R", "A", "N", "S", "F", "E", "R", " ", "D", "A", "N", "A", " ", "0", ".", "5", "0", " ", "D", "B", " ", "1", "0", "6", ",", "1", "6", "1", ".", "0", "0", " ", "5", "0", "0", ",", "0", "0", "0", ".", "0", "0", " ", "C", "R", " ">>>>, <<>>>>
    /\ Len(transactions) = 1
    /\ transactions[1].amount = 50
    /\ transactions[1].src_balance = 10616100

\* what the line at index k (from 1) after the start line is
After13(k) == CHOOSE x \in Lines13 : x.s = pages[1][k + 2]

\* the number of lines after the start line
Count13 == Len(pages[1]) - 2

\* the transaction of the start line ends before the line at index k: an earlier line,
\* or this one, is a new date-start line or a closing banner
Ended13(k) == \E j \in 1..k : After13(j).kind \in {"start", "banner"}

\* the content of the transaction of the start line after its first k following lines
RECURSIVE Content13(_)
Content13(k) ==
    IF k = 0 THEN <<"T", "R", "F">>
    ELSE IF Ended13(k) \/ After13(k).kind = "noise" THEN Content13(k - 1)
    ELSE Content13(k - 1) \o <<" ">> \o After13(k).s

\* C23: in Grammar A each line after a start line is appended to the transaction's
\* content until a new date-start line or a closing banner (a line containing
\* BERSAMBUNG, SALDO AWAL or SALDO AKHIR), which ends the transaction without being
\* appended; a noise-header line is skipped and the line after it is appended
C23_AccumulationBoundaries ==
    pc = "done" =>
        /\ transactions # <<>>
        /\ transactions[1].description = Content13(Count13)

\* the position of the token that supplies the amount
AmountAt2(toks) == IF Negatives(toks) # {} THEN Least(Negatives(toks)) ELSE 1

\* the values written in the tokens other than the one that supplies the amount
Others2(toks) == {toks[k].v : k \in 1..Len(toks) \ {AmountAt2(toks)}}

\* C24: in Grammar B a start line with a single token has balance 0, and a start line
\* with a further token has the value of a token other than the one taken as the
\* amount as its balance, whatever the order of negative and non-negative tokens
C24_BalanceFromOtherToken ==
    \A c \in Case2 :
        pc = "done" /\ c.toks # <<>> =>
            /\ Len(transactions) = 1
            /\ Len(c.toks) = 1 => transactions[1].src_balance = 0
            /\ Len(c.toks) > 1 => transactions[1].src_balance \in Others2(c.toks)

\* the lines after the amount line
Tail14 == SubSeq(pages[1], 4, Len(pages[1]))

\* what the line after the amount line is
Stamp14 == CHOOSE x \in Stamps14 : x.s = Tail14[1]

\* what the line after that one is
Ref14 == CHOOSE y \in Refs14 : y.s = Tail14[2]

\* the description and the index the scan resumes at, for the fragments appended after
\* the amount line and the number of lines consumed after it
Says14(add, consumed) ==
    /\ Len(transactions) = 1
    /\ transactions[1].description = <<"B", "I", "A", "Y", "A", " ", "A", "D", "M">> \o add
    /\ transactions[1].src_next = 3 + consumed

\* after a bare timestamp: the line after it is appended when it is one of the kinds,
\* and left unconsumed when it is not
AfterBare14(kinds) ==
    IF Len(Tail14) = 2 /\ Ref14.kind \in kinds
    THEN Says14(<<" ">> \o Ref14.s, 2)
    ELSE Says14(<<>>, 1)

\* C25 as stated: after the amount line a line HH:MM:SS with trailing text has that text
\* appended to the description unless the text is a date-start line; after a bare
\* timestamp the next line is appended unless it is a date-start line or a structural
\* marker, and a line not appended is left unconsumed
C25_TimestampAsWritten ==
    pc = "done" =>
        IF Tail14 = <<>> \/ ~Stamp14.ts THEN Says14(<<>>, 0)
        ELSE IF Stamp14.trail # <<>>
        THEN Says14(IF Stamp14.date THEN <<>> ELSE <<" ">> \o Stamp14.trail, 1)
        ELSE AfterBare14({"ref", "label"})

\* C25 amended: after the amount line a line HH:MM:SS WIB with trailing text has that
\* text appended to the description unless the text is a date-start line; any other line
\* that starts with HH:MM:SS is a bare timestamp, and the line after it is appended
\* unless it is a date-start line, a structural marker or starts with Pembayaran or
\* Transfer; a line not appended is left unconsumed
C25_TimestampContinuation ==
    pc = "done" =>
        IF Tail14 = <<>> \/ ~Stamp14.ts THEN Says14(<<>>, 0)
        ELSE IF Stamp14.wib /\ Stamp14.trail # <<>>
        THEN Says14(IF Stamp14.date THEN <<>> ELSE <<" ">> \o Stamp14.trail, 1)
        ELSE AfterBare14({"ref"})

\* a reference after a bare timestamp has been appended
C25_Witness ==
    /\ pc = "done"
    /\ pages = <<<<<<"1", "5", " ", "M", "a", "r", " ", "2", "0", "2", "5">>, <<"B", "I", "A", "Y", "A", " ", "A", "D", "M">>, <<"-", "2", "0", "0", ",", "0", "0", " ", "1", "0", ".", "0", "0", "0", ",", "0", "0">>, <<"1", "0", ":", "1", "5", ":", "3", "0", " ", "W", "I", "B">>,
                   <<"R", "E", "F", "1", "2", "3">>>>, <<>>>>
    /\ Len(transactions) = 1
    /\ transactions[1].description = <<"B", "I", "A", "Y", "A", " ", "A", "D", "M", " ", "R", "E", "F", "1", "2", "3">>
    /\ transactions[1].src_next = 5

\* the index (from 1) of the date line of the page
DateAt15 == CHOOSE k \in 1..Len(pages[1]) : StartsWith(pages[1][k], <<"1", "5", " ", "M", "a", "r", " ", "2", "0", "2", "5">>)

\* what the line before the date line is
Before15 == CHOOSE x \in Befores15 : x.s = pages[1][DateAt15 - 1]

\* the fragments of the date line and of the lines after it
Rest15 ==
    (IF pages[1][DateAt15] = <<"1", "5", " ", "M", "a", "r", " ", "2", "0", "2", "5">> THEN <<>> ELSE <<<<"S", "E", "T", "O", "R", " ", "T", "U", "N", "A", "I">>>>)
        \o (IF pages[1][DateAt15 + 1] = <<"K", "E", " ", "R", "E", "K", "E", "N", "I", "N", "G">> THEN <<<<"K", "E", " ", "R", "E", "K", "E", "N", "I", "N", "G">>>> ELSE <<>>)

\* the fragments joined by one space
RECURSIVE Joined15(_)
Joined15(frags) ==
    IF frags = <<>> THEN <<>>
    ELSE IF Len(frags) = 1 THEN frags[1]
    ELSE frags[1] \o <<" ">> \o Joined15(Tail(frags))

\* the one transaction of the page is described by the fragments; with no fragment there
\* is no transaction
Says15(frags) ==
    IF frags = <<>> THEN transactions = <<>>
    ELSE /\ Len(transactions) = 1
         /\ transactions[1].description = Joined15(frags)

\* C26 as stated: in Grammar C the line before a date-start line that is not the first
\* of its page is the first fragment of the description when it is non-empty and not
\* noise; an empty line or a noise line (it starts with a digit, or is the bare WIB
\* marker) contributes nothing
C26_LeadingAsWritten ==
    pc = "done" =>
        IF DateAt15 = 1 \/ Before15.text = <<>> \/ Before15.noise THEN Says15(Rest15)
        ELSE Says15(<<Before15.text>> \o Rest15)

\* C26 amended: in Grammar C the line before a date-start line that is not the first of
\* its page is the first fragment of the description when it is non-empty, not noise,
\* shorter than 50 characters and not the column-header banner; an empty line, a noise
\* line, a line of 50 characters or more or the banner contributes nothing
C26_LeadingFragment ==
    pc = "done" =>
        IF \/ DateAt15 = 1
           \/ Before15.text = <<>> \/ Before15.noise \/ Before15.long \/ Before15.header
        THEN Says15(Rest15)
        ELSE Says15(<<Before15.text>> \o Rest15)

\* a transaction has been described from the line before its date line
C26_Witness ==
    /\ pc = "done"
    /\ pages = <<<<<<"W", "I", "B">>, <<"T", "R", "A", "N", "S", "F", "E", "R", " ", "M", "A", "S", "U", "K">>, <<"1", "5", " ", "M", "a", "r", " ", "2", "0", "2", "5">>, <<"K", "E", " ", "R", "E", "K", "E", "N", "I", "N", "G">>,
                   <<"1", ".", "5", "0", "0", ",", "0", "0", " ", "1", "0", ".", "0", "0", "0", ",", "0", "0">>>>, <<>>>>
    /\ Len(transactions) = 1
    /\ transactions[1].description = <<"T", "R", "A", "N", "S", "F", "E", "R", " ", "M", "A", "S", "U", "K", " ", "K", "E", " ", "R", "E", "K", "E", "N", "I", "N", "G">>

\* what the line at index k (from 1) of the page is
Line16(k) == CHOOSE x \in Lines16 : x.s = pages[1][k]

\* the lines after index k that end the candidate of a date line at k
Ends16(k) ==
    {t \in k + 1..Len(pages[1]) : Line16(t).kind \in {"date", "nodate", "banner", "amount"}}

\* the candidate of the date line at k reaches an amount line of a positive amount before
\* a date line, a banner or the end of the page
Complete16(k) ==
    /\ Ends16(k) # {}
    /\ Line16(Least(Ends16(k))).kind = "amount"
    /\ Line16(Least(Ends16(k))).v > 0

\* a transaction of the date line at k has been emitted
Emitted16(k) == \E n \in 1..Len(transactions) : transactions[n].src_line = k - 1

\* C27: every transaction Grammar C emits has a description and a positive amount; a
\* date line that reaches the next date line, a structural banner or the end of the page
\* before an amount line yields no transaction, and the scan resumes at the line that
\* ended it: a date line with text that reaches its amount line yields its transaction
\* whatever stands before it
C27_IncompleteDiscarded ==
    pc = "done" =>
        /\ \A n \in 1..Len(transactions) :
              transactions[n].description # <<>> /\ transactions[n].amount > 0
        /\ \A k \in 1..Len(pages[1]) :
              Line16(k).kind = "date" =>
                  /\ Emitted16(k) => Complete16(k)
                  /\ Complete16(k) /\ Line16(k).text => Emitted16(k)

\* a candidate ended by a date line has been discarded and the transaction of that date
\* line emitted
C27_Witness ==
    /\ pc = "done"
    /\ pages = <<<<<<"1", "5", " ", "M", "a", "r", " ", "2", "0", "2", "5", " ", "S", "E", "T", "O", "R">>, <<"K", "E", " ", "R", "E", "K", "E", "N", "I", "N", "G">>, <<"1", "7", " ", "M", "a", "r", " ", "2", "0", "2", "5">>,
                   <<"1", ".", "5", "0", "0", ",", "0", "0", " ", "1", "0", ".", "0", "0", "0", ",", "0", "0">>>>, <<>>>>
    /\ Len(transactions) = 1
    /\ transactions[1].src_line = 2
    /\ transactions[1].amount = 150000

\* a step of the line scanner: within a page the line index grows, or the scanner goes
\* to the next page, or parse() ends (by its return or by an exception)
ScanStep28 ==
    pc = "scan" =>
        \/ pc' = "scan" /\ pg' = pg /\ i' > i
        \/ pc' = "scan" /\ pg' = pg + 1 /\ i >= Len(pages[pg])
        \/ pc' \in {"done", "raised"}

\* the line index never exceeds the number of lines of the page
InRange28 == pc = "scan" /\ pg <= Len(pages) => i <= Len(pages[pg])

Words18 ==
    { <<"T", "R", "F">>, <<"O", "V", "E", "R", "B", "O", "O", "K", "I", "N", "G">>, <<"S", "E", "T", "O", "R">>, <<"R", "E", "K", "E", "N", "I", "N", "G">>, <<"K", "A", "S">>, <<"P", "a", "g", "e">>, <<"B", "I", "A", "Y", "A">>, <<"R", "E", "F", "1", "2", "3">>,
      <<"R", "E", "F", "4", "5", "6">>, <<"T", "r", "a", "n", "s", "f", "e", "r">>, <<"C", "A", "T", "A", "T", "A", "N">>, <<"T", "A", "R", "I", "K">>, <<"A", "D", "M", "I", "N">> }

\* the transactions whose description holds the word
Holders18(w) == {n \in 1..Len(transactions) : Contains(w, transactions[n].description)}

\* C29: in every PDF grammar a line contributes text to the description of at most one
\* emitted transaction: a line taken as continuation, reference or remark of a
\* transaction is not a fragment of the description of the next one
C29_OneTransactionPerLine ==
    pc = "done" => \A w \in Words18 : Cardinality(Holders18(w)) <= 1

\* the value of the cell that gives a transaction of the data row its direction
DirectionCell4(tr) == IF tr.type = "DEBIT" THEN DebitOf4 ELSE CreditOf4

\* C30: the amount of every transaction of the tabular grammar is the parsed value of
\* the cell that determined its direction, the debit cell of a DEBIT and the credit cell
\* of a CREDIT, also when both cells of the row are positive
C30_AmountOfDirectionCell ==
    pc = "done" /\ IsGrid4 =>
        \A k \in 1..Len(transactions) : transactions[k].amount = DirectionCell4(transactions[k])

====
